---- MODULE Spec2Model ----
(***************************************************************************)
(* notion-notifyer: the task grouping, ordering and due-date formatting    *)
(* pipeline, the Slack blocks, the fetch from Notion, the filter of the    *)
(* tasks to notify, the run of the program and the workflow that starts    *)
(* it.  The repository holds two generations of the code:                  *)
(*   - the current one: src/slack.go lines 204-400, src/notion.go,         *)
(*     src/main.go lines 540-654, src/unnamed/part_002 lines 105-224;      *)
(*   - the earlier one: src/main.go lines 1-539 (= src/unnamed/part_001),  *)
(*     whose helpers are repeated in src/slack.go lines 1-203.             *)
(* Definitions of the earlier generation carry the suffix _main.           *)
(***************************************************************************)
EXTENDS Integers, Sequences, FiniteSets, TLC

VARIABLES
    now,        \* the wall clock reading of the run (time.Now())
    tasks,      \* the []Task handed to the operation
    op,         \* the operation that has been applied: "input" before any
    today,      \* groupTasksByUrgency: first result
    threeDays,  \* groupTasksByUrgency: second result
    sevenDays,  \* groupTasksByUrgency: third result
    sorted,     \* the slice after sortTasks
    rendered,   \* formatDueDate's result for every task of the list
    built,      \* the blocks and the error of appendSection, buildSlackBlocks
    prog,       \* the program that runs
    pc,         \* where the run stands
    env,        \* the settings read from the environment
    flag,       \* the --daysLater flag: <<>> when it is not given
    daysLater,  \* the lookahead of the run
    targetDate, \* the end of the query window
    records,    \* the records of the task source that match the query
    cursor,     \* fetchNotionTasks: the cursor of the next query
    queries,    \* the cursors of the queries sent so far
    fetched,    \* fetchNotionTasks: the tasks so far, and its result
    posts,      \* the messages sent to Slack
    exitCode,   \* the exit code of the process, Running until it ends
    notify,     \* shouldNotify's result for every task of the list
    toNotify,   \* the slice that filterTasks returns
    twin,       \* a second list, handed to the same operation as tasks
    twinOut,    \* the results of the operation for the second list
    event,      \* the event that triggered the workflow
    step,       \* the step of the job that is next
    job,        \* the status of the job
    executions  \* the commands of the notifier that the job has run

\* the variables of a run
runVars == <<prog, pc, env, flag, daysLater, targetDate, records, cursor,
             queries, fetched, posts, exitCode>>

\* the variables of the filter, and of an operation applied to two lists
filterVars == <<notify, toNotify, twin, twinOut>>

\* the variables of the workflow
cronVars == <<event, step, job, executions>>

vars == <<now, tasks, op, today, threeDays, sevenDays, sorted, rendered, built,
          prog, pc, env, flag, daysLater, targetDate, records, cursor,
          queries, fetched, posts, exitCode,
          notify, toNotify, twin, twinOut, event, step, job, executions>>

-----------------------------------------------------------------------------
(* Bounds of the model.                                                    *)

\* due dates range over the calendar days (Today - 1) .. (Today + Horizon)
Horizon == 8
\* longest task list handed to groupTasksByUrgency
MaxGroupTasks == 2
\* longest task list handed to sortTasks
MaxSortTasks == 3
\* longest task list whose due dates are formatted
MaxFmtTasks == 1
\* most records that match the query of a run
MaxRecords == 3
\* most records of one page of the task source's answer (100 in the code)
ServerPageSize == 2
\* the --daysLater flag ranges over -1 .. MaxDaysLater
MaxDaysLater == 5
\* the memos are up to MemoOver characters longer than a memo maximum
MemoOver == 1
\* longest task list handed to buildSlackBlocks
MaxBlockTasks == 3

-----------------------------------------------------------------------------
(* time.Time: an instant (seconds since the epoch) and the offset of its   *)
(* location.  Calendar fields are read in the value's own location.        *)

SecPerDay == 24 * 60 * 60

UTC == 0 * 3600
JST == 9 * 3600

\* time.Date(y, m, day, h, mi, s, 0, loc) for in-range fields
Date(day, h, mi, s, loc) ==
    [s |-> day * SecPerDay + h * 3600 + mi * 60 + s - loc, z |-> loc]

Local(t) == t.s + t.z
\* the calendar day (Year, Month, Day) of t, as a day number
YMD(t) == Local(t) \div SecPerDay
Hour(t) == (Local(t) % SecPerDay) \div 3600
Minute(t) == (Local(t) % 3600) \div 60

After(t, u) == t.s > u.s
Before(t, u) == t.s < u.s
Equal(t, u) == t.s = u.s
\* t.AddDate(0, 0, n) in a location without clock changes
AddDate(t, n) == [t EXCEPT !.s = @ + n * SecPerDay]

\* a *notionapi.Date: nil, or a pointer to a time value
nil == <<>>
Ptr(t) == <<t>>
Deref(p) == p[1]

-----------------------------------------------------------------------------
(* Task and the priority table.                                            *)

\* Type and Memo hold free text, a string of bytes (see Strings below); the
\* other string fields hold short ASCII names
Task(id, start, end, pri) ==
    [ID |-> id, Title |-> "t", DueStart |-> start, DueEnd |-> end,
     Priority |-> pri, Type |-> <<>>, ScheduleStatus |-> "", Workload |-> 0,
     Memo |-> <<>>, URL |-> "u", NotifyDays |-> 3]

\* priorityOrder of the current generation; a key the map lacks reads as 0
priorityOrder(p) ==
    CASE p = "High" -> 1
      [] p = "Mid" -> 2
      [] p = "Low" -> 3
      [] p = "" -> 4
      [] OTHER -> 0

\* priorityOrder of the earlier generation
priorityOrder_main(p) ==
    CASE p = "High" -> 1
      [] p = "Medium" -> 2
      [] p = "Low" -> 3
      [] p = "" -> 4
      [] OTHER -> 0

-----------------------------------------------------------------------------
(* getTargetDueDate: the end date when there is one, else the start date.  *)

getTargetDueDate_startFirst(task) ==
    IF task.DueStart # nil THEN task.DueStart
    ELSE IF task.DueEnd # nil THEN task.DueEnd
    ELSE nil

getTargetDueDate(task) ==
    IF task.DueEnd # nil THEN task.DueEnd
    ELSE IF task.DueStart # nil THEN task.DueStart
    ELSE nil

-----------------------------------------------------------------------------
(* groupTasksByUrgency.                                                    *)

NoGroups == [today |-> <<>>, threeDays |-> <<>>, sevenDays |-> <<>>]

\* the current generation compares the due instant with 23:59:59 of today,
\* of today + 3 and of today + 7
RECURSIVE groupLoop(_, _, _, _)
groupLoop(ts, clock, i, acc) ==
    IF i > Len(ts) THEN acc
    ELSE
      LET task == ts[i]
          todayBoundary == Date(YMD(clock), 23, 59, 59, clock.z)
          threeDaysBoundary == AddDate(todayBoundary, 3)
          sevenDaysBoundary == AddDate(todayBoundary, 7)
          dueDate == getTargetDueDate(task)
      IN IF dueDate = nil THEN groupLoop(ts, clock, i + 1, acc)
         ELSE IF ~After(Deref(dueDate), todayBoundary)
           THEN groupLoop(ts, clock, i + 1, [acc EXCEPT !.today = Append(@, task)])
         ELSE IF ~After(Deref(dueDate), threeDaysBoundary)
           THEN groupLoop(ts, clock, i + 1, [acc EXCEPT !.threeDays = Append(@, task)])
         ELSE IF ~After(Deref(dueDate), sevenDaysBoundary)
           THEN groupLoop(ts, clock, i + 1, [acc EXCEPT !.sevenDays = Append(@, task)])
         ELSE groupLoop(ts, clock, i + 1, acc)

\* a grouping that puts a task without a due date in today's group
RECURSIVE groupLoop_keepUndated(_, _, _, _)
groupLoop_keepUndated(ts, clock, i, acc) ==
    IF i > Len(ts) THEN acc
    ELSE
      LET task == ts[i]
          todayBoundary == Date(YMD(clock), 23, 59, 59, clock.z)
          threeDaysBoundary == AddDate(todayBoundary, 3)
          sevenDaysBoundary == AddDate(todayBoundary, 7)
          dueDate == getTargetDueDate(task)
      IN IF dueDate = nil \/ ~After(Deref(dueDate), todayBoundary)
           THEN groupLoop_keepUndated(ts, clock, i + 1, [acc EXCEPT !.today = Append(@, task)])
         ELSE IF ~After(Deref(dueDate), threeDaysBoundary)
           THEN groupLoop_keepUndated(ts, clock, i + 1, [acc EXCEPT !.threeDays = Append(@, task)])
         ELSE IF ~After(Deref(dueDate), sevenDaysBoundary)
           THEN groupLoop_keepUndated(ts, clock, i + 1, [acc EXCEPT !.sevenDays = Append(@, task)])
         ELSE groupLoop_keepUndated(ts, clock, i + 1, acc)

groupTasksByUrgency_keepUndated(ts, clock) == groupLoop_keepUndated(ts, clock, 1, NoGroups)

\* a grouping whose three tests are not chained by else
RECURSIVE groupLoop_noElse(_, _, _, _)
groupLoop_noElse(ts, clock, i, acc) ==
    IF i > Len(ts) THEN acc
    ELSE
      LET task == ts[i]
          todayBoundary == Date(YMD(clock), 23, 59, 59, clock.z)
          threeDaysBoundary == AddDate(todayBoundary, 3)
          sevenDaysBoundary == AddDate(todayBoundary, 7)
          dueDate == getTargetDueDate(task)
          a1 == IF dueDate # nil /\ ~After(Deref(dueDate), todayBoundary)
                THEN [acc EXCEPT !.today = Append(@, task)] ELSE acc
          a2 == IF dueDate # nil /\ ~After(Deref(dueDate), threeDaysBoundary)
                THEN [a1 EXCEPT !.threeDays = Append(@, task)] ELSE a1
          a3 == IF dueDate # nil /\ ~After(Deref(dueDate), sevenDaysBoundary)
                THEN [a2 EXCEPT !.sevenDays = Append(@, task)] ELSE a2
      IN groupLoop_noElse(ts, clock, i + 1, a3)

groupTasksByUrgency_noElse(ts, clock) == groupLoop_noElse(ts, clock, 1, NoGroups)

groupTasksByUrgency(ts, clock) == groupLoop(ts, clock, 1, NoGroups)

\* a grouping whose boundaries exclude the boundary day itself
RECURSIVE groupLoop_strict(_, _, _, _)
groupLoop_strict(ts, clock, i, acc) ==
    IF i > Len(ts) THEN acc
    ELSE
      LET task == ts[i]
          todayBoundary == Date(YMD(clock), 0, 0, 0, clock.z)
          threeDaysBoundary == AddDate(todayBoundary, 3)
          sevenDaysBoundary == AddDate(todayBoundary, 7)
          dueDate == getTargetDueDate(task)
          dueDateTime == Date(YMD(Deref(dueDate)), 0, 0, 0, clock.z)
      IN IF dueDate = nil THEN groupLoop_strict(ts, clock, i + 1, acc)
         ELSE IF Before(dueDateTime, todayBoundary)
           THEN groupLoop_strict(ts, clock, i + 1, [acc EXCEPT !.today = Append(@, task)])
         ELSE IF Before(dueDateTime, threeDaysBoundary)
           THEN groupLoop_strict(ts, clock, i + 1, [acc EXCEPT !.threeDays = Append(@, task)])
         ELSE IF Before(dueDateTime, sevenDaysBoundary)
           THEN groupLoop_strict(ts, clock, i + 1, [acc EXCEPT !.sevenDays = Append(@, task)])
         ELSE groupLoop_strict(ts, clock, i + 1, acc)

groupTasksByUrgency_strict(ts, clock) == groupLoop_strict(ts, clock, 1, NoGroups)

\* the earlier generation compares midnight of the due date's calendar day,
\* rebuilt in now's location, with midnight of today, today + 3, today + 7
RECURSIVE groupLoop_main(_, _, _, _)
groupLoop_main(ts, clock, i, acc) ==
    IF i > Len(ts) THEN acc
    ELSE
      LET task == ts[i]
          todayBoundary == Date(YMD(clock), 0, 0, 0, clock.z)
          threeDaysBoundary == AddDate(todayBoundary, 3)
          sevenDaysBoundary == AddDate(todayBoundary, 7)
          dueDate == getTargetDueDate(task)
          dueDateTime == Date(YMD(Deref(dueDate)), 0, 0, 0, clock.z)
      IN IF dueDate = nil THEN groupLoop_main(ts, clock, i + 1, acc)
         ELSE IF ~After(dueDateTime, todayBoundary)
           THEN groupLoop_main(ts, clock, i + 1, [acc EXCEPT !.today = Append(@, task)])
         ELSE IF ~After(dueDateTime, threeDaysBoundary)
           THEN groupLoop_main(ts, clock, i + 1, [acc EXCEPT !.threeDays = Append(@, task)])
         ELSE IF ~After(dueDateTime, sevenDaysBoundary)
           THEN groupLoop_main(ts, clock, i + 1, [acc EXCEPT !.sevenDays = Append(@, task)])
         ELSE groupLoop_main(ts, clock, i + 1, acc)

groupTasksByUrgency_main(ts, clock) == groupLoop_main(ts, clock, 1, NoGroups)

-----------------------------------------------------------------------------
(* sortTasks: sort.SliceStable with the comparator of each generation.     *)

\* a comparator that also answers "less" for two tasks with the same keys
sortLess_orEqual(a, b) ==
    LET priI == priorityOrder(a.Priority)
        priJ == priorityOrder(b.Priority)
        dueI == getTargetDueDate(a)
        dueJ == getTargetDueDate(b)
    IN IF priI # priJ THEN priI < priJ
       ELSE IF dueI # nil /\ dueJ # nil THEN ~After(Deref(dueI), Deref(dueJ))
       ELSE TRUE

\* a comparator that orders two tasks with the same keys by their workload
sortLess_thenWorkload(a, b) ==
    LET priI == priorityOrder(a.Priority)
        priJ == priorityOrder(b.Priority)
        dueI == getTargetDueDate(a)
        dueJ == getTargetDueDate(b)
    IN IF priI # priJ THEN priI < priJ
       ELSE IF dueI # nil /\ dueJ # nil /\ ~Equal(Deref(dueI), Deref(dueJ))
         THEN Before(Deref(dueI), Deref(dueJ))
       ELSE a.Workload < b.Workload

\* the comparator of the current generation: by rank, then by due instant;
\* "false" as soon as one of the two tasks has no due date
sortLess(a, b) ==
    LET priI == priorityOrder(a.Priority)
        priJ == priorityOrder(b.Priority)
        dueI == getTargetDueDate(a)
        dueJ == getTargetDueDate(b)
    IN IF priI # priJ THEN priI < priJ
       ELSE IF dueI # nil /\ dueJ # nil THEN Before(Deref(dueI), Deref(dueJ))
       ELSE FALSE

\* the comparator of the earlier generation: a task without a due date is
\* never less than another one, a task with one is less than one without
sortLess_main(a, b) ==
    LET priI == priorityOrder_main(a.Priority)
        priJ == priorityOrder_main(b.Priority)
        dueI == getTargetDueDate(a)
        dueJ == getTargetDueDate(b)
    IN IF priI # priJ THEN priI < priJ
       ELSE IF dueI # nil /\ dueJ # nil THEN Before(Deref(dueI), Deref(dueJ))
       ELSE dueI # nil

\* the less function handed to sort.SliceStable by each generation
Less(gen, a, b) == IF gen = "main" THEN sortLess_main(a, b) ELSE sortLess(a, b)

Swap(s, i, j) == [s EXCEPT ![i] = s[j], ![j] = s[i]]

\* sort.SliceStable on at most 20 elements is one insertion sort:
\*   for i := a + 1; i < b; i++ {
\*     for j := i; j > a && less(j, j-1); j-- { swap(j, j-1) } }
RECURSIVE insertBack(_, _, _)
insertBack(gen, s, j) ==
    IF j > 1 /\ Less(gen, s[j], s[j - 1])
    THEN insertBack(gen, Swap(s, j, j - 1), j - 1)
    ELSE s

RECURSIVE insertionSort(_, _, _)
insertionSort(gen, s, i) ==
    IF i > Len(s) THEN s
    ELSE insertionSort(gen, insertBack(gen, s, i), i + 1)

sortTasks(ts) == insertionSort("slack", ts, 2)

sortTasks_main(ts) == insertionSort("main", ts, 2)

-----------------------------------------------------------------------------
(* formatDueDate.  A rendered string is a sequence of tokens: a date or a  *)
(* time printed with a layout (k names the layout, a and b the fields it   *)
(* prints), or literal text (k is the text).                               *)

Tok(k, a, b) == [k |-> k, a |-> a, b |-> b]
Lit(text) == Tok(text, 0, 0)

\* fmt.Sprintf("%02d/%02d", month, day): the calendar day without its year
MonthDay(t) == Tok("01/02", YMD(t), 0)
\* t.Format("2006-01-02")
FormatDate(t) == Tok("2006-01-02", YMD(t), 0)
\* "%02d:%02d" of hour and minute, and t.Format("15:04")
HourMinute(t) == Tok("15:04", Hour(t), Minute(t))

Ok(str) == [str |-> str, err |-> ""]
Err(msg) == [str |-> <<>>, err |-> msg]
\* a nil pointer dereference ends the run with a runtime panic
Panic == Err("panic: nil pointer dereference")

timeFormat(t) ==
    IF Hour(t) # 0
    THEN <<MonthDay(t), Lit(" "), HourMinute(t)>>
    ELSE <<MonthDay(t)>>

\* the current generation
formatDueDate(task) ==
    LET startTime == task.DueStart
        endTime == task.DueEnd
    IN IF startTime = nil /\ endTime = nil
         THEN Err("startTime and endTime are both nil")
       ELSE IF startTime # nil /\ endTime # nil
         THEN Ok(timeFormat(Deref(startTime)) \o <<Lit(" ~ ")>>
                   \o timeFormat(Deref(endTime)))
       ELSE IF startTime = nil THEN Panic
       ELSE Ok(timeFormat(Deref(startTime)))

\* every instant of the model lies after the zero time (year 1)
IsZero(t) == FALSE

\* the earlier generation
formatDueDate_main(task) ==
    IF task.DueEnd # nil THEN
      IF task.DueStart # nil /\ ~Equal(Deref(task.DueStart), Deref(task.DueEnd)) THEN
        LET startT == Deref(task.DueStart)
            endT == Deref(task.DueEnd)
        IN IF YMD(startT) = YMD(endT) THEN
             LET startStr == IF (~IsZero(startT) /\ Hour(startT) # 0) \/ Minute(startT) # 0
                             THEN <<HourMinute(startT)>> ELSE <<>>
                 endStr == IF (~IsZero(endT) /\ Hour(endT) # 0) \/ Minute(endT) # 0
                           THEN <<HourMinute(endT)>> ELSE <<>>
             IN IF startStr # <<>> /\ endStr # <<>>
                  THEN Ok(<<FormatDate(endT), Lit(" (")>> \o startStr
                            \o <<Lit(" ~ ")>> \o endStr \o <<Lit(")")>>)
                ELSE IF endStr # <<>>
                  THEN Ok(<<FormatDate(endT), Lit(" (~")>> \o endStr \o <<Lit(")")>>)
                ELSE IF startStr # <<>>
                  THEN Ok(<<FormatDate(endT), Lit(" (")>> \o startStr \o <<Lit("~)")>>)
                ELSE Ok(<<FormatDate(endT)>>)
           ELSE Ok(<<FormatDate(startT), Lit(" ~ "), FormatDate(endT)>>)
      ELSE Ok(<<FormatDate(Deref(task.DueEnd))>>)
    ELSE IF task.DueStart # nil THEN Ok(<<FormatDate(Deref(task.DueStart))>>)
    ELSE Ok(<<Lit("N/A")>>)

-----------------------------------------------------------------------------
(* Strings.  A Go string is a sequence of bytes; len(s) and s[:n] count    *)
(* bytes.  A byte is told by the token it belongs to (k, a, b as above),   *)
(* by its position i among the bytes of that token and by their number w.  *)
(* A character of a free text is a token of its own: one byte in ASCII,    *)
(* three bytes for a kana or a kanji in UTF-8.                             *)

Byte(tok, i, w) == [k |-> tok.k, a |-> tok.a, b |-> tok.b, i |-> i, w |-> w]

\* the bytes of a token that is printed w bytes wide
TokBytes(tok, w) == [i \in 1..w |-> Byte(tok, i, w)]
\* a literal of the program that is w bytes wide in UTF-8
Text(name, w) == TokBytes(Lit(name), w)
\* a literal of the program in ASCII, and a short ASCII field of a task
Ascii(text) == Text(text, Len(text))

\* the number of bytes a layout prints: the date and time layouts, the
\* RFC1123 time stamp, "%.2f" of a workload below 10; a literal is ASCII
TokWidth(tok) ==
    CASE tok.k = "01/02" -> 5
      [] tok.k = "2006-01-02" -> 10
      [] tok.k = "15:04" -> 5
      [] tok.k = "RFC1123" -> 29
      [] tok.k = "%.2f" -> 4
      [] OTHER -> Len(tok.k)

\* the string that a sequence of tokens prints
RECURSIVE Bytes(_)
Bytes(toks) ==
    IF toks = <<>> THEN <<>>
    ELSE TokBytes(Head(toks), TokWidth(Head(toks))) \o Bytes(Tail(toks))

\* the characters of the free texts: a letter, the four characters that
\* Slack's markdown reads as markup, the backslash, and a kana
Backquote == "backquote"
CharWidth(c) == IF c = "kana" THEN 3 ELSE 1
Char(c) == Text(c, CharWidth(c))
\* the text made of n times the character c
Repeat(c, n) ==
    [j \in 1..(n * CharWidth(c)) |->
        Byte(Lit(c), ((j - 1) % CharWidth(c)) + 1, CharWidth(c))]

\* strings.ReplaceAll(s, old, new) for an old of one byte, computed on the
\* two halves of s
RECURSIVE ReplaceAll(_, _, _)
ReplaceAll(s, old, new) ==
    IF Len(s) = 0 THEN s
    ELSE IF Len(s) = 1 THEN (IF s = old THEN new ELSE s)
    ELSE LET h == Len(s) \div 2
         IN ReplaceAll(SubSeq(s, 1, h), old, new)
              \o ReplaceAll(SubSeq(s, h + 1, Len(s)), old, new)

\* strings.Join(elems, sep)
RECURSIVE Join(_, _)
Join(elems, sep) ==
    IF elems = <<>> THEN <<>>
    ELSE IF Len(elems) = 1 THEN elems[1]
    ELSE elems[1] \o sep \o Join(Tail(elems), sep)

-----------------------------------------------------------------------------
(* Slack blocks.  appendSection and buildSlackBlocks of the current        *)
(* generation return the blocks and an error; a nil slice is <<>>.         *)

Block(type, text) == [type |-> type, text |-> text]
NewDividerBlock == Block("divider", <<>>)
NewHeaderBlock(text) == Block("header", text)
NewSectionBlock(text) == Block("section", text)
NewContextBlock(text) == Block("context", text)

Built(blocks, err) == [blocks |-> blocks, err |-> err]
NoBlocks == Built(<<>>, "")

MAX_MESSAGE_LENGTH == 3000
MAX_MEMO_LENGTH == 1000
\* maxMemoLength of the earlier generation
maxMemoLength == 150

\* the titles of the message and of its three sections, with their UTF-8
\* widths (an emoji and a Japanese text)
HeaderTitle == Text("bell Notion task reminder", 39)
TodayTitle == Text("siren due today", 20)
ThreeDaysTitle == Text("warning due within 3 days", 27)
SevenDaysTitle == Text("calendar due within 7 days", 28)

\* fmt.Sprintf("*%s*", title)
sectionTitle(title) == Ascii("*") \o title \o Ascii("*")
\* fmt.Sprintf("*<%s|%s>*", task.URL, task.Title)
strTaskTitle(task) ==
    Ascii("*<") \o Ascii(task.URL) \o Ascii("|") \o Ascii(task.Title) \o Ascii(">*")

truncatedMemo(memo) ==
    IF Len(memo) > MAX_MEMO_LENGTH
    THEN SubSeq(memo, 1, MAX_MEMO_LENGTH) \o Ascii("...")
    ELSE memo

\* the fields of the detail line; each label is a Japanese word between
\* asterisks, followed by a colon and a space
details(task, strTime) ==
    <<Text("*due date:* ", 13) \o strTime>>
      \o (IF task.Priority # ""
            THEN <<Text("*priority:* ", 13) \o Ascii(task.Priority)>> ELSE <<>>)
      \o (IF task.Type # <<>>
            THEN <<Text("*type:* ", 10) \o task.Type>> ELSE <<>>)
      \o (IF task.ScheduleStatus # ""
            THEN <<Text("*schedule:* ", 22) \o Ascii(task.ScheduleStatus)>> ELSE <<>>)
      \o (IF task.Workload # 0
            THEN <<Text("*workload:* ", 22) \o Bytes(<<Tok("%.2f", task.Workload, 0)>>)>>
            ELSE <<>>)
      \o (IF task.Memo # <<>>
            THEN <<Text("*memo:* ", 10) \o truncatedMemo(task.Memo)>> ELSE <<>>)

detailsText(task, strTime) ==
    LET joined == Join(details(task, strTime), Ascii(" | "))
    IN IF Len(joined) > MAX_MESSAGE_LENGTH
       THEN SubSeq(joined, 1, MAX_MESSAGE_LENGTH) \o Ascii("...")
       ELSE joined

\* the loop of appendSection over the tasks of the section: a due date that
\* cannot be formatted ends it with the blocks so far and the error, a nil
\* pointer dereference in formatDueDate ends it without any block
RECURSIVE sectionLoop(_, _, _)
sectionLoop(blocks, ts, i) ==
    IF i > Len(ts) THEN Built(blocks, "")
    ELSE
      LET task == ts[i]
          r == formatDueDate(task)
      IN IF r = Panic THEN Built(<<>>, r.err)
         ELSE IF r.err # "" THEN Built(blocks, r.err)
         ELSE sectionLoop(
                Append(blocks,
                       NewSectionBlock(strTaskTitle(task) \o Ascii("\n")
                                         \o detailsText(task, Bytes(r.str)))),
                ts, i + 1)

appendSection_always(blocks, title, ts) ==
    sectionLoop(blocks \o <<NewDividerBlock, NewSectionBlock(sectionTitle(title))>>,
                ts, 1)

appendSection(blocks, title, ts) ==
    IF Len(ts) = 0 THEN Built(blocks, "")
    ELSE sectionLoop(blocks \o <<NewDividerBlock, NewSectionBlock(sectionTitle(title))>>,
                     ts, 1)

\* buildSlackBlocks of the current generation; time.Now() is the clock
buildSlackBlocks(ts, clock) ==
    IF Len(ts) = 0 THEN Built(<<>>, "")
    ELSE
      LET g == groupTasksByUrgency(ts, clock)
          s1 == appendSection(<<NewHeaderBlock(HeaderTitle)>>, TodayTitle,
                              sortTasks(g.today))
          s2 == appendSection(s1.blocks, ThreeDaysTitle, sortTasks(g.threeDays))
          s3 == appendSection(s2.blocks, SevenDaysTitle, sortTasks(g.sevenDays))
      IN IF s1.err # "" THEN s1
         ELSE IF s2.err # "" THEN s2
         ELSE IF s3.err # "" THEN s3
         ELSE Built(s3.blocks \o
                      <<NewDividerBlock,
                        NewContextBlock(Ascii("CreatedAt: ")
                                          \o Bytes(<<Tok("RFC1123", clock.s, clock.z)>>))>>,
                    "")

\* the earlier generation: no error, the priority with a coloured mark, the
\* memo cut at maxMemoLength and escaped, the detail line cut at 2900
priorityEmoji(priority) ==
    CASE priority = "High" -> Text("red circle ", 5)
      [] priority = "Medium" -> Text("blue circle ", 5)
      [] priority = "Low" -> Text("black circle ", 4)
      [] OTHER -> <<>>

truncatedMemo_main(memo) ==
    IF Len(memo) > maxMemoLength
    THEN SubSeq(memo, 1, maxMemoLength) \o Ascii("...")
    ELSE memo

\* every call replaces in the truncated memo, and the result of the last
\* call is the one that is used
escapedMemo(truncated) ==
    LET e1 == ReplaceAll(truncated, Char("*"), Char("\\") \o Char("*"))
        e2 == ReplaceAll(truncated, Char("_"), Char("\\") \o Char("_"))
        e3 == ReplaceAll(truncated, Char("~"), Char("\\") \o Char("~"))
        e4 == ReplaceAll(truncated, Char(Backquote), Char("\\") \o Char(Backquote))
    IN e4

details_main(task) ==
    <<Text("*due:* ", 10) \o Bytes(formatDueDate_main(task).str)>>
      \o (IF task.Priority # ""
            THEN <<Text("*priority:* ", 13) \o priorityEmoji(task.Priority)
                     \o Ascii(task.Priority)>>
            ELSE <<>>)
      \o (IF task.Type # <<>>
            THEN <<Text("*type:* ", 10) \o task.Type>> ELSE <<>>)
      \o (IF task.ScheduleStatus # ""
            THEN <<Text("*status:* ", 19) \o Ascii(task.ScheduleStatus)>> ELSE <<>>)
      \o (IF task.Workload # 0
            THEN <<Text("*workload:* ", 22) \o Bytes(<<Tok("%.2f", task.Workload, 0)>>)>>
            ELSE <<>>)
      \o (IF task.Memo # <<>>
            THEN <<Text("*memo:* ", 10) \o escapedMemo(truncatedMemo_main(task.Memo))>>
            ELSE <<>>)

detailsText_main(task) ==
    LET joined == Join(details_main(task), Ascii(" | "))
    IN IF Len(joined) > 2900
       THEN SubSeq(joined, 1, 2900) \o Ascii("...")
       ELSE joined

appendSection_main(blocks, title, ts) ==
    IF Len(ts) = 0 THEN blocks
    ELSE blocks \o <<NewDividerBlock, NewSectionBlock(sectionTitle(title))>>
           \o [i \in 1..Len(ts) |->
                 NewSectionBlock(strTaskTitle(ts[i]) \o Ascii("\n")
                                   \o detailsText_main(ts[i]))]

buildSlackBlocks_main(ts, clock) ==
    LET g == groupTasksByUrgency_main(ts, clock)
        b1 == appendSection_main(<<NewHeaderBlock(HeaderTitle)>>, TodayTitle,
                                 sortTasks_main(g.today))
        b2 == appendSection_main(b1, ThreeDaysTitle, sortTasks_main(g.threeDays))
        b3 == appendSection_main(b2, SevenDaysTitle, sortTasks_main(g.sevenDays))
    IN b3 \o <<NewDividerBlock,
               NewContextBlock(Text("created at: ", 14)
                                 \o Bytes(<<Tok("RFC1123", clock.s, clock.z)>>))>>

-----------------------------------------------------------------------------
(* The task source.  The server hands out the records that match the       *)
(* query in pages of at most ServerPageSize records; a cursor is the       *)
(* number of pages handed out so far, and the empty cursor is 0.           *)

\* a notionapi.Page: its ID, the title property, start and end of the date
\* property, the priority
Page(id, name, due) == [ID |-> id, Name |-> name, Due |-> due, Priority |-> "High"]

Query(db, startCursor) ==
    LET lo == startCursor * ServerPageSize + 1
        hi == IF (startCursor + 1) * ServerPageSize < Len(db)
              THEN (startCursor + 1) * ServerPageSize ELSE Len(db)
    IN [Results |-> SubSeq(db, lo, hi),
        HasMore |-> hi < Len(db),
        NextCursor |-> startCursor + 1]

\* nil for a page without a title or without any date, else a pointer to
\* the task
parseNotionPage(page) ==
    LET task == [Task(page.ID, page.Due[1], page.Due[2], page.Priority)
                   EXCEPT !.Title = page.Name]
    IN IF task.Title = "" \/ (task.DueStart = nil /\ task.DueEnd = nil)
       THEN nil
       ELSE Ptr(task)

\* the earlier generation sets NotifyDays to 3 as well, which Task does
parseNotionPage_main(page) == parseNotionPage(page)

\* what fetchNotionTasks returns: the tasks and the error
Fetched(allTasks, err) == [tasks |-> allTasks, err |-> err]
NotFetched == Fetched(<<>>, "")
QueryFailed == Fetched(<<>>, "failed to query database")

\* a loop that keeps a task whose end lies after the query window
RECURSIVE resultsLoop_keepEnd(_, _, _, _)
resultsLoop_keepEnd(results, onOrBeforeDate, i, allTasks) ==
    IF i > Len(results) THEN Fetched(allTasks, "")
    ELSE
      LET task == parseNotionPage(results[i])
      IN IF task = nil THEN Fetched(<<>>, Panic.err)
         ELSE resultsLoop_keepEnd(results, onOrBeforeDate, i + 1,
                                  Append(allTasks, Deref(task)))

\* the loop of the current generation over the results of its one query: it
\* reads task.DueEnd before it tests task against nil, so a page that
\* parseNotionPage rejects ends the run with a nil pointer dereference
RECURSIVE resultsLoop(_, _, _, _)
resultsLoop(results, onOrBeforeDate, i, allTasks) ==
    IF i > Len(results) THEN Fetched(allTasks, "")
    ELSE
      LET task == parseNotionPage(results[i])
      IN IF task = nil THEN Fetched(<<>>, Panic.err)
         ELSE IF /\ Deref(task).DueEnd # nil
                 /\ After(Deref(Deref(task).DueEnd), onOrBeforeDate)
           THEN resultsLoop(results, onOrBeforeDate, i + 1, allTasks)
         ELSE resultsLoop(results, onOrBeforeDate, i + 1, Append(allTasks, Deref(task)))

\* the loop of the earlier generation over the results of one query
RECURSIVE resultsLoop_main(_, _, _)
resultsLoop_main(results, i, allTasks) ==
    IF i > Len(results) THEN allTasks
    ELSE
      LET task == parseNotionPage_main(results[i])
      IN IF task # nil
         THEN resultsLoop_main(results, i + 1, Append(allTasks, Deref(task)))
         ELSE resultsLoop_main(results, i + 1, allTasks)

-----------------------------------------------------------------------------
(* filterTasks and the fallback text of the earlier generation.            *)

\* the same with the last day of the window left out
shouldNotify_strict(task, clock) ==
    LET target == getTargetDueDate(task)
    IN IF target = nil THEN FALSE
       ELSE
         LET midnight == Date(YMD(clock), 0, 0, 0, clock.z)
             dueDate == Date(YMD(Deref(target)), 0, 0, 0, clock.z)
             daysRemaining == (dueDate.s - midnight.s) \div SecPerDay
         IN IF Before(dueDate, midnight) THEN FALSE
            ELSE daysRemaining < task.NotifyDays

\* the same without the test for a due day in the past
shouldNotify_noPast(task, clock) ==
    LET target == getTargetDueDate(task)
    IN IF target = nil THEN FALSE
       ELSE
         LET midnight == Date(YMD(clock), 0, 0, 0, clock.z)
             dueDate == Date(YMD(Deref(target)), 0, 0, 0, clock.z)
             daysRemaining == (dueDate.s - midnight.s) \div SecPerDay
         IN daysRemaining <= task.NotifyDays

\* the same without the window
shouldNotify_noWindow(task, clock) ==
    LET target == getTargetDueDate(task)
    IN IF target = nil THEN FALSE
       ELSE
         LET midnight == Date(YMD(clock), 0, 0, 0, clock.z)
             dueDate == Date(YMD(Deref(target)), 0, 0, 0, clock.z)
         IN ~Before(dueDate, midnight)

\* int(dueDate.Sub(today).Hours() / 24) of two midnights of one location
\* without clock changes is the number of days between them
shouldNotify(task, clock) ==
    LET target == getTargetDueDate(task)
    IN IF target = nil THEN FALSE
       ELSE
         LET midnight == Date(YMD(clock), 0, 0, 0, clock.z)
             dueDate == Date(YMD(Deref(target)), 0, 0, 0, clock.z)
             daysRemaining == (dueDate.s - midnight.s) \div SecPerDay
         IN IF Before(dueDate, midnight) THEN FALSE
            ELSE daysRemaining <= task.NotifyDays

isDueToday_always(task, clock) == TRUE

isDueToday(task, clock) ==
    LET target == getTargetDueDate(task)
    IN IF target = nil THEN FALSE
       ELSE Equal(Date(YMD(Deref(target)), 0, 0, 0, clock.z),
                  Date(YMD(clock), 0, 0, 0, clock.z))

RECURSIVE filterLoop(_, _, _, _)
filterLoop(ts, clock, i, filtered) ==
    IF i > Len(ts) THEN filtered
    ELSE
      LET task == ts[i]
          isUrgentNotificationTime == Hour(clock) = 13 \/ Hour(clock) = 20
      IN IF shouldNotify(task, clock) /\ (isUrgentNotificationTime => isDueToday(task, clock))
         THEN filterLoop(ts, clock, i + 1, Append(filtered, task))
         ELSE filterLoop(ts, clock, i + 1, filtered)

filterTasks(ts, clock) == filterLoop(ts, clock, 1, <<>>)

\* one line of the fallback text for every task of a group, under its title
RECURSIVE taskLines(_, _)
taskLines(ts, i) ==
    IF i > Len(ts) THEN <<>>
    ELSE
      LET task == ts[i]
      IN <<Lit("- *"), Lit(task.Title), Lit("* (due: ")>>
           \o formatDueDate_main(task).str
           \o (IF task.Priority # ""
                 THEN <<Lit(", priority: "), Lit(task.Priority)>> ELSE <<>>)
           \o <<Lit(") <"), Lit(task.URL), Lit(">\n")>>
           \o taskLines(ts, i + 1)

appendTasksToString(builder, title, ts) ==
    IF Len(ts) > 0
    THEN builder \o <<Lit("\n*"), Lit(title), Lit("*\n")>> \o taskLines(ts, 1)
    ELSE builder

formatSlackMessage(ts, clock) ==
    LET g == groupTasksByUrgency_main(ts, clock)
        heading == <<Lit("Notion task reminder ("), FormatDate(clock), Lit(")\n")>>
        m1 == appendTasksToString(heading, "due today", sortTasks_main(g.today))
        m2 == appendTasksToString(m1, "due within 3 days", sortTasks_main(g.threeDays))
    IN appendTasksToString(m2, "due within 7 days", sortTasks_main(g.sevenDays))

-----------------------------------------------------------------------------
(* The run of the notifier.  Three programs are in the repository:         *)
(*   rootCmd.Run          src/main.go lines 573-639, the most recent;      *)
(*   rootCmd.Run_part002  src/unnamed/part_002 lines 161-212;              *)
(*   main_main            src/main.go lines 56-113, the earlier one.       *)

Programs == {"rootCmd.Run", "rootCmd.Run_part002", "main_main"}

\* the four settings read from the environment
Env(notionToken, dbID, slackToken, slackChannelID) ==
    [notionToken |-> notionToken, dbID |-> dbID,
     slackToken |-> slackToken, slackChannelID |-> slackChannelID]
NoEnv == Env("", "", "", "")

missingSetting_noChannel(e) ==
    e.notionToken = "" \/ e.dbID = "" \/ e.slackToken = ""

\* the test that ends the run with log.Fatalf
missingSetting(e) ==
    e.notionToken = "" \/ e.dbID = "" \/ e.slackToken = "" \/ e.slackChannelID = ""

\* cmd.Flags().GetInt("daysLater"): the value given, else the default 0
GetInt(f) == IF f = <<>> THEN 0 ELSE f[1]

limitDaysLater_none(d) == d

\* daysLater after the limit of rootCmd.Run
limitDaysLater(d) == IF d > 3 THEN 3 ELSE d

\* targetDate before the run sets it
NoDate == Date(0, 0, 0, 0, UTC)

\* time.Date(year, month, day + daysLater, 23, 59, 59, 59, location) of
\* time.Now(); the 59 nanoseconds change no comparison with whole seconds
targetDateOf(clock, d) == Date(YMD(clock) + d, 23, 59, 59, clock.z)

\* the exit code of a return, of log.Fatalf and of a runtime panic
ExitOK == 0
ExitFatal == 1
ExitPanic == 2
Running == -1

\* what PostMessage sends: the fallback text and the blocks
Message(text, blocks) == [text |-> text, blocks |-> blocks]

-----------------------------------------------------------------------------
(* The workflow that runs the notifier: src/.github/workflows/cron.yml.    *)

\* github.event_name and github.event.schedule
Event(name, schedule) == [name |-> name, schedule |-> schedule]
NoEvent == Event("", "")

\* on.schedule, and workflow_dispatch
Schedules == {"0 0 * * *", "0 4 * * *", "0 11 * * *"}
Events == {Event("schedule", c) : c \in Schedules} \cup {Event("workflow_dispatch", "")}

\* the hour (UTC) at which a schedule triggers
cronHour(c) ==
    CASE c = "0 0 * * *" -> 0
      [] c = "0 4 * * *" -> 4
      [] c = "0 11 * * *" -> 11

\* jobs.run_notifier.steps
Steps ==
    <<"Checkout repository", "Set up Go", "Build Go application",
      "Run Notion Notifier (9 AM JST schedule)",
      "Run Notion Notifier (1 PM JST schedule)">>

\* the steps that run the notifier
NotifierSteps == {4, 5}

\* the if of a step; a step without one runs
stepIf(k, ev) ==
    CASE k = 4 -> ev.schedule = "0 0 * * *"
      [] k = 5 -> (ev.schedule = "0 4 * * *" \/ ev.name = "workflow_dispatch")
      [] OTHER -> TRUE

\* the flag of the command of a step: ./notion-notifier --daysLater 3, 0
stepFlag(k) == IF k = 4 THEN <<3>> ELSE <<0>>

\* a command that the job ran
Command(name, f) == [name |-> name, daysLater |-> f]

-----------------------------------------------------------------------------
(* Inputs.                                                                 *)

\* the calendar day of the run
Today == 2

DueDays == (Today - 1)..(Today + Horizon)

\* the clock readings of a run: midnight and 13:00, on a runner in UTC or JST
Nows == {Date(Today, h, 0, 0, loc) : h \in {0, 13}, loc \in {UTC, JST}}

\* a date-only due value is parsed as midnight UTC; a due value with a time
\* keeps the offset it was written with
DateOnly(day) == Date(day, 0, 0, 0, UTC)
StartOfDay(day) == Date(day, 0, 0, 0, JST)
EndOfDay(day) == Date(day, 23, 59, 59, JST)

GroupDues ==
    {DateOnly(d) : d \in DueDays}
      \cup {StartOfDay(d) : d \in DueDays}
      \cup {EndOfDay(d) : d \in DueDays}

\* start and end of the tasks handed to groupTasksByUrgency: no date, a
\* start alone, or a range that starts today
GroupDates ==
    {<<nil, nil>>}
      \cup {<<Ptr(t), nil>> : t \in GroupDues}
      \cup {<<Ptr(DateOnly(Today)), Ptr(DateOnly(Today + k))>> : k \in {0, 2, 5, 8}}

\* the list of k tasks whose i-th task has ID i and the dates and priority f[i]
MakeTasks(f, k) == [i \in 1..k |-> Task(i, f[i][1][1], f[i][1][2], f[i][2])]

Ops == {"input", "groupTasksByUrgency", "groupTasksByUrgency_main",
        "sortBuckets", "sortBuckets_main", "sortTasks", "sortTasks_main",
        "formatDueDate", "formatDueDate_main",
        "appendSection", "appendSection_main",
        "buildSlackBlocks", "buildSlackBlocks_main",
        "shouldNotify", "filterTasks", "buildSlackBlocks_toNotify",
        "filterTasks_pair", "groupTasksByUrgency_pair",
        "groupTasksByUrgency_main_pair", "sortTasks_pair", "sortTasks_main_pair",
        "job"}

TypeOK == op \in Ops

NoResults ==
    /\ op = "input"
    /\ today = <<>>
    /\ threeDays = <<>>
    /\ sevenDays = <<>>
    /\ sorted = <<>>
    /\ rendered = <<>>
    /\ built = NoBlocks
    /\ notify = <<>>
    /\ toNotify = <<>>

\* the results of an operation for the second list
TwinOut(f, g, s) == [toNotify |-> f, groups |-> g, sorted |-> s]

\* no second list
NoTwin ==
    /\ twin = <<>>
    /\ twinOut = TwinOut(<<>>, NoGroups, <<>>)

\* no workflow: the operation or the program is started on its own
NoWorkflow ==
    /\ event = NoEvent
    /\ step = 0
    /\ job = "none"
    /\ executions = <<>>

\* no run: the operation is applied on its own
NoRun ==
    /\ prog = "none"
    /\ pc = "none"
    /\ env = NoEnv
    /\ flag = <<>>
    /\ daysLater = 0
    /\ targetDate = NoDate
    /\ records = <<>>
    /\ cursor = 0
    /\ queries = <<>>
    /\ fetched = NotFetched
    /\ posts = <<>>
    /\ exitCode = Running

InitGroup ==
    /\ now \in Nows
    /\ \E k \in 1..MaxGroupTasks : \E f \in [1..k -> (GroupDates) \X {"High"}] :
         tasks = MakeTasks(f, k)
    /\ NoResults
    /\ NoRun
    /\ NoTwin
    /\ NoWorkflow

\* the tasks handed to sortTasks: every priority of the select property and
\* none; no due date, two instants a day apart, and the first instant again
\* as written in another location
SortDates ==
    {<<nil, nil>>,
     <<Ptr(DateOnly(Today + 1)), nil>>,
     <<Ptr(Date(Today + 1, 9, 0, 0, JST)), nil>>,
     <<Ptr(DateOnly(Today + 2)), nil>>}

Priorities == {"High", "Medium", "Low", ""}

InitSort ==
    /\ now = Date(Today, 0, 0, 0, UTC)
    /\ \E k \in 1..MaxSortTasks : \E f \in [1..k -> (SortDates) \X Priorities] :
         tasks = MakeTasks(f, k)
    /\ NoResults
    /\ NoRun
    /\ NoTwin
    /\ NoWorkflow

\* the due values that are formatted: a date alone, and times of day with
\* and without an hour, with and without minutes
FmtTimes ==
    {DateOnly(d) : d \in {Today, Today + 1}}
      \cup {Date(d, hm[1], hm[2], 0, JST) :
              d \in {Today, Today + 1}, hm \in {<<0, 0>>, <<0, 30>>, <<9, 0>>, <<17, 30>>}}

FmtPtrs == {nil} \cup {Ptr(t) : t \in FmtTimes}

InitFmt ==
    /\ now = Date(Today, 0, 0, 0, UTC)
    /\ \E k \in 1..MaxFmtTasks : \E f \in [1..k -> (FmtPtrs \X FmtPtrs) \X {"High"}] :
         tasks = MakeTasks(f, k)
    /\ NoResults
    /\ NoRun
    /\ NoTwin
    /\ NoWorkflow

\* the memos handed to appendSection: none, one character repeated, and a
\* markdown character or a kana between two letters.  The lengths, in
\* characters, lie around both memo maxima, at 60 and 400 (a Japanese memo
\* of that many characters has more bytes than the maximum) and at 2000
MemoChars == {"a", "*", "_", "~", Backquote, "kana"}

MemoLens ==
    {1, 2, 60, 400, 2000}
      \cup {maxMemoLength + d : d \in -1..MemoOver}
      \cup {MAX_MEMO_LENGTH + d : d \in -1..MemoOver}

Memos ==
    {<<>>}
      \cup {Repeat(c, n) : c \in MemoChars, n \in MemoLens}
      \cup {Char("a") \o Char(c) \o Char("a") : c \in MemoChars \ {"a"}}

\* the type of a task: none, a short name, a name that fills a message
Types == {<<>>, Repeat("a", 4), Repeat("a", MAX_MESSAGE_LENGTH)}

\* priority and workload: both unset, both set
Fields == {<<"", 0>>, <<"High", 1>>}

InitDetails ==
    /\ now = Date(Today, 0, 0, 0, UTC)
    /\ \E m \in Memos, ty \in Types, f \in Fields :
         tasks = <<[Task(1, Ptr(DateOnly(Today)), nil, f[1])
                      EXCEPT !.Type = ty, !.Memo = m, !.Workload = f[2]]>>
    /\ NoResults
    /\ NoRun
    /\ NoTwin
    /\ NoWorkflow

\* start and end of the tasks handed to buildSlackBlocks: no date, a start
\* today, in 2, in 5 and in 9 days, an end alone, a range from today
BlockDates ==
    {<<nil, nil>>, <<nil, Ptr(DateOnly(Today))>>,
     <<Ptr(DateOnly(Today)), Ptr(DateOnly(Today + 2))>>}
      \cup {<<Ptr(DateOnly(Today + k)), nil>> : k \in {0, 2, 5, 9}}

\* a list may be empty
InitBlocks ==
    /\ now \in Nows
    /\ \E k \in 0..MaxBlockTasks : \E f \in [1..k -> (BlockDates) \X {"High"}] :
         tasks = MakeTasks(f, k)
    /\ NoResults
    /\ NoRun
    /\ NoTwin
    /\ NoWorkflow

\* the records that match the query: a task that starts today, a task that
\* starts in two days, a task from today to the fifth day from now, a page
\* without a title, a page without a date, a page whose date has an end and
\* no start
RecordKinds ==
    {<<"t", <<Ptr(DateOnly(Today)), nil>>>>,
     <<"t", <<Ptr(DateOnly(Today + 2)), nil>>>>,
     <<"t", <<Ptr(DateOnly(Today)), Ptr(DateOnly(Today + 5))>>>>,
     <<"", <<Ptr(DateOnly(Today)), nil>>>>,
     <<"t", <<nil, nil>>>>,
     <<"t", <<nil, Ptr(DateOnly(Today))>>>>}

\* the settings: complete, one of the four missing, none set
Envs ==
    {Env("x", "x", "x", "x"), Env("", "x", "x", "x"), Env("x", "", "x", "x"),
     Env("x", "x", "", "x"), Env("x", "x", "x", ""), NoEnv}

Flags == {<<>>} \cup {<<d>> : d \in -1..MaxDaysLater}

\* the runs start at 00:00 UTC and at 13:00 in Japan
RunNows == {Date(Today, 0, 0, 0, UTC), Date(Today, 13, 0, 0, JST)}

InitRun ==
    /\ now \in RunNows
    /\ tasks = <<>>
    /\ NoResults
    /\ prog \in Programs
    /\ pc = "start"
    /\ env = NoEnv
    /\ flag = <<>>
    /\ daysLater = 0
    /\ targetDate = NoDate
    /\ \E k \in 0..MaxRecords : \E f \in [1..k -> RecordKinds] :
         records = [i \in 1..k |-> Page(i, f[i][1], f[i][2])]
    /\ cursor = 0
    /\ queries = <<>>
    /\ fetched = NotFetched
    /\ posts = <<>>
    /\ exitCode = Running
    /\ NoTwin
    /\ NoWorkflow

-----------------------------------------------------------------------------
(* Operations.                                                             *)

GroupTasksByUrgency ==
    /\ op = "input"
    /\ LET g == groupTasksByUrgency(tasks, now)
       IN /\ today' = g.today
          /\ threeDays' = g.threeDays
          /\ sevenDays' = g.sevenDays
    /\ op' = "groupTasksByUrgency"
    /\ UNCHANGED <<now, tasks, sorted, rendered, built>>
    /\ UNCHANGED runVars
    /\ UNCHANGED filterVars
    /\ UNCHANGED cronVars

GroupTasksByUrgency_main ==
    /\ op = "input"
    /\ LET g == groupTasksByUrgency_main(tasks, now)
       IN /\ today' = g.today
          /\ threeDays' = g.threeDays
          /\ sevenDays' = g.sevenDays
    /\ op' = "groupTasksByUrgency_main"
    /\ UNCHANGED <<now, tasks, sorted, rendered, built>>
    /\ UNCHANGED runVars
    /\ UNCHANGED filterVars
    /\ UNCHANGED cronVars

\* buildSlackBlocks sorts each of the three groups in place
SortBuckets ==
    /\ op = "groupTasksByUrgency"
    /\ today' = sortTasks(today)
    /\ threeDays' = sortTasks(threeDays)
    /\ sevenDays' = sortTasks(sevenDays)
    /\ op' = "sortBuckets"
    /\ UNCHANGED <<now, tasks, sorted, rendered, built>>
    /\ UNCHANGED runVars
    /\ UNCHANGED filterVars
    /\ UNCHANGED cronVars

SortBuckets_main ==
    /\ op = "groupTasksByUrgency_main"
    /\ today' = sortTasks_main(today)
    /\ threeDays' = sortTasks_main(threeDays)
    /\ sevenDays' = sortTasks_main(sevenDays)
    /\ op' = "sortBuckets_main"
    /\ UNCHANGED <<now, tasks, sorted, rendered, built>>
    /\ UNCHANGED runVars
    /\ UNCHANGED filterVars
    /\ UNCHANGED cronVars

SortTasks ==
    /\ op = "input"
    /\ sorted' = sortTasks(tasks)
    /\ op' = "sortTasks"
    /\ UNCHANGED <<now, tasks, today, threeDays, sevenDays, rendered, built>>
    /\ UNCHANGED runVars
    /\ UNCHANGED filterVars
    /\ UNCHANGED cronVars

SortTasks_main ==
    /\ op = "input"
    /\ sorted' = sortTasks_main(tasks)
    /\ op' = "sortTasks_main"
    /\ UNCHANGED <<now, tasks, today, threeDays, sevenDays, rendered, built>>
    /\ UNCHANGED runVars
    /\ UNCHANGED filterVars
    /\ UNCHANGED cronVars

FormatDueDate ==
    /\ op = "input"
    /\ rendered' = [i \in 1..Len(tasks) |-> formatDueDate(tasks[i])]
    /\ op' = "formatDueDate"
    /\ UNCHANGED <<now, tasks, today, threeDays, sevenDays, sorted, built>>
    /\ UNCHANGED runVars
    /\ UNCHANGED filterVars
    /\ UNCHANGED cronVars

FormatDueDate_main ==
    /\ op = "input"
    /\ rendered' = [i \in 1..Len(tasks) |-> formatDueDate_main(tasks[i])]
    /\ op' = "formatDueDate_main"
    /\ UNCHANGED <<now, tasks, today, threeDays, sevenDays, sorted, built>>
    /\ UNCHANGED runVars
    /\ UNCHANGED filterVars
    /\ UNCHANGED cronVars

\* one section of the message, for the tasks of the list
AppendSection ==
    /\ op = "input"
    /\ built' = appendSection(<<>>, TodayTitle, tasks)
    /\ op' = "appendSection"
    /\ UNCHANGED <<now, tasks, today, threeDays, sevenDays, sorted, rendered>>
    /\ UNCHANGED runVars
    /\ UNCHANGED filterVars
    /\ UNCHANGED cronVars

AppendSection_main ==
    /\ op = "input"
    /\ built' = Built(appendSection_main(<<>>, TodayTitle, tasks), "")
    /\ op' = "appendSection_main"
    /\ UNCHANGED <<now, tasks, today, threeDays, sevenDays, sorted, rendered>>
    /\ UNCHANGED runVars
    /\ UNCHANGED filterVars
    /\ UNCHANGED cronVars

\* the whole message
BuildSlackBlocks ==
    /\ op = "input"
    /\ built' = buildSlackBlocks(tasks, now)
    /\ op' = "buildSlackBlocks"
    /\ UNCHANGED <<now, tasks, today, threeDays, sevenDays, sorted, rendered>>
    /\ UNCHANGED runVars
    /\ UNCHANGED filterVars
    /\ UNCHANGED cronVars

BuildSlackBlocks_main ==
    /\ op = "input"
    /\ built' = Built(buildSlackBlocks_main(tasks, now), "")
    /\ op' = "buildSlackBlocks_main"
    /\ UNCHANGED <<now, tasks, today, threeDays, sevenDays, sorted, rendered>>
    /\ UNCHANGED runVars
    /\ UNCHANGED filterVars
    /\ UNCHANGED cronVars

\* the variables of the operations applied on their own
opVars == <<op, today, threeDays, sevenDays, sorted, rendered>>

\* rootCmd.Run up to the query: the flag with its limit, the settings, the
\* end of the query window
Run_start ==
    /\ pc = "start"
    /\ prog = "rootCmd.Run"
    /\ \E e \in Envs, f \in Flags :
         LET d == limitDaysLater(GetInt(f))
         IN /\ env' = e
            /\ flag' = f
            /\ daysLater' = d
            /\ IF missingSetting(e)
               THEN pc' = "exit" /\ exitCode' = ExitFatal /\ UNCHANGED targetDate
               ELSE pc' = "fetch" /\ targetDate' = targetDateOf(now, d)
                      /\ UNCHANGED exitCode
    /\ UNCHANGED <<now, tasks, built, prog, records, cursor, queries, fetched, posts>>
    /\ UNCHANGED opVars
    /\ UNCHANGED filterVars
    /\ UNCHANGED cronVars

\* the same without the limit
Run_start_part002 ==
    /\ pc = "start"
    /\ prog = "rootCmd.Run_part002"
    /\ \E e \in Envs, f \in Flags :
         LET d == GetInt(f)
         IN /\ env' = e
            /\ flag' = f
            /\ daysLater' = d
            /\ IF missingSetting(e)
               THEN pc' = "exit" /\ exitCode' = ExitFatal /\ UNCHANGED targetDate
               ELSE pc' = "fetch" /\ targetDate' = targetDateOf(now, d)
                      /\ UNCHANGED exitCode
    /\ UNCHANGED <<now, tasks, built, prog, records, cursor, queries, fetched, posts>>
    /\ UNCHANGED opVars
    /\ UNCHANGED filterVars
    /\ UNCHANGED cronVars

\* main of the earlier generation has no flag; its query window is set in
\* fetchNotionTasks
main_start ==
    /\ pc = "start"
    /\ prog = "main_main"
    /\ \E e \in Envs :
         /\ env' = e
         /\ IF missingSetting(e)
            THEN pc' = "exit" /\ exitCode' = ExitFatal
            ELSE pc' = "fetch" /\ UNCHANGED exitCode
    /\ UNCHANGED <<now, tasks, built, prog, flag, daysLater, targetDate, records,
                   cursor, queries, fetched, posts>>
    /\ UNCHANGED opVars
    /\ UNCHANGED filterVars
    /\ UNCHANGED cronVars

\* fetchNotionTasks of the current generation: one query, which may fail,
\* and the loop over its results
FetchNotionTasks ==
    /\ pc = "fetch"
    /\ prog \in {"rootCmd.Run", "rootCmd.Run_part002"}
    /\ queries' = Append(queries, cursor)
    /\ \E ok \in BOOLEAN :
         fetched' = IF ok
                    THEN resultsLoop(Query(records, cursor).Results, targetDate, 1, <<>>)
                    ELSE QueryFailed
    /\ pc' = "returned"
    /\ UNCHANGED <<now, tasks, built, prog, env, flag, daysLater, targetDate, records,
                   cursor, posts, exitCode>>
    /\ UNCHANGED opVars
    /\ UNCHANGED filterVars
    /\ UNCHANGED cronVars

\* one turn of the loop of fetchNotionTasks of the earlier generation: a
\* query from the cursor, its results, and the next cursor while the
\* answer has more
FetchNotionTasks_main ==
    /\ pc = "fetch"
    /\ prog = "main_main"
    /\ queries' = Append(queries, cursor)
    /\ \E ok \in BOOLEAN :
         IF ok
         THEN LET resp == Query(records, cursor)
              IN /\ fetched' = Fetched(resultsLoop_main(resp.Results, 1, fetched.tasks), "")
                 /\ IF ~resp.HasMore
                    THEN pc' = "returned" /\ UNCHANGED cursor
                    ELSE pc' = "fetch" /\ cursor' = resp.NextCursor
         ELSE /\ fetched' = QueryFailed
              /\ pc' = "returned"
              /\ UNCHANGED cursor
    /\ UNCHANGED <<now, tasks, built, prog, env, flag, daysLater, targetDate, records,
                   posts, exitCode>>
    /\ UNCHANGED opVars
    /\ UNCHANGED filterVars
    /\ UNCHANGED cronVars

Run_continue_unchecked ==
    /\ pc = "returned"
    /\ prog = "rootCmd.Run"
    /\ tasks' = fetched.tasks
    /\ built' = buildSlackBlocks(fetched.tasks, now)
    /\ pc' = "post"
    /\ UNCHANGED <<now, prog, env, flag, daysLater, targetDate, records, cursor,
                   queries, fetched, posts, exitCode>>
    /\ UNCHANGED opVars
    /\ UNCHANGED filterVars
    /\ UNCHANGED cronVars

\* rootCmd.Run from the return of fetchNotionTasks to the post: an error is
\* fatal, no task ends the run, the blocks are built
Run_continue ==
    /\ pc = "returned"
    /\ prog = "rootCmd.Run"
    /\ IF fetched.err = Panic.err
         THEN pc' = "exit" /\ exitCode' = ExitPanic /\ UNCHANGED <<tasks, built>>
       ELSE IF fetched.err # ""
         THEN pc' = "exit" /\ exitCode' = ExitFatal /\ UNCHANGED <<tasks, built>>
       ELSE IF Len(fetched.tasks) = 0
         THEN pc' = "exit" /\ exitCode' = ExitOK /\ tasks' = fetched.tasks
                /\ UNCHANGED built
       ELSE LET b == buildSlackBlocks(fetched.tasks, now)
            IN /\ tasks' = fetched.tasks
               /\ built' = b
               /\ IF b.err = Panic.err THEN pc' = "exit" /\ exitCode' = ExitPanic
                  ELSE IF b.err # "" THEN pc' = "exit" /\ exitCode' = ExitFatal
                  ELSE pc' = "post" /\ UNCHANGED exitCode
    /\ UNCHANGED <<now, prog, env, flag, daysLater, targetDate, records, cursor,
                   queries, fetched, posts>>
    /\ UNCHANGED opVars
    /\ UNCHANGED filterVars
    /\ UNCHANGED cronVars

\* the same without the test for no task
Run_continue_part002 ==
    /\ pc = "returned"
    /\ prog = "rootCmd.Run_part002"
    /\ IF fetched.err = Panic.err
         THEN pc' = "exit" /\ exitCode' = ExitPanic /\ UNCHANGED <<tasks, built>>
       ELSE IF fetched.err # ""
         THEN pc' = "exit" /\ exitCode' = ExitFatal /\ UNCHANGED <<tasks, built>>
       ELSE LET b == buildSlackBlocks(fetched.tasks, now)
            IN /\ tasks' = fetched.tasks
               /\ built' = b
               /\ IF b.err = Panic.err THEN pc' = "exit" /\ exitCode' = ExitPanic
                  ELSE IF b.err # "" THEN pc' = "exit" /\ exitCode' = ExitFatal
                  ELSE pc' = "post" /\ UNCHANGED exitCode
    /\ UNCHANGED <<now, prog, env, flag, daysLater, targetDate, records, cursor,
                   queries, fetched, posts>>
    /\ UNCHANGED opVars
    /\ UNCHANGED filterVars
    /\ UNCHANGED cronVars

\* main of the earlier generation: the tasks are filtered, and no task to
\* notify or an empty fallback text ends the run
main_continue ==
    /\ pc = "returned"
    /\ prog = "main_main"
    /\ IF fetched.err # ""
         THEN pc' = "exit" /\ exitCode' = ExitFatal /\ UNCHANGED <<tasks, built>>
       ELSE LET tasksToNotify == filterTasks(fetched.tasks, now)
            IN /\ tasks' = tasksToNotify
               /\ IF Len(tasksToNotify) = 0 \/ formatSlackMessage(tasksToNotify, now) = <<>>
                  THEN pc' = "exit" /\ exitCode' = ExitOK /\ UNCHANGED built
                  ELSE /\ built' = Built(buildSlackBlocks_main(tasksToNotify, now), "")
                       /\ pc' = "post"
                       /\ UNCHANGED exitCode
    /\ UNCHANGED <<now, prog, env, flag, daysLater, targetDate, records, cursor,
                   queries, fetched, posts>>
    /\ UNCHANGED opVars
    /\ UNCHANGED filterVars
    /\ UNCHANGED cronVars

\* slackClient.PostMessage with the blocks; Slack accepts the message or
\* answers with an error, which is fatal
PostMessage ==
    /\ pc = "post"
    /\ prog \in {"rootCmd.Run", "rootCmd.Run_part002"}
    /\ posts' = Append(posts, Message(<<>>, built.blocks))
    /\ pc' = "exit"
    /\ \E ok \in BOOLEAN : exitCode' = IF ok THEN ExitOK ELSE ExitFatal
    /\ UNCHANGED <<now, tasks, built, prog, env, flag, daysLater, targetDate, records,
                   cursor, queries, fetched>>
    /\ UNCHANGED opVars
    /\ UNCHANGED filterVars
    /\ UNCHANGED cronVars

\* the earlier generation sends the fallback text with the blocks
PostMessage_main ==
    /\ pc = "post"
    /\ prog = "main_main"
    /\ posts' = Append(posts, Message(formatSlackMessage(tasks, now), built.blocks))
    /\ pc' = "exit"
    /\ \E ok \in BOOLEAN : exitCode' = IF ok THEN ExitOK ELSE ExitFatal
    /\ UNCHANGED <<now, tasks, built, prog, env, flag, daysLater, targetDate, records,
                   cursor, queries, fetched>>
    /\ UNCHANGED opVars
    /\ UNCHANGED filterVars
    /\ UNCHANGED cronVars

NextGroup ==
    \/ GroupTasksByUrgency
    \/ GroupTasksByUrgency_main
    \/ SortBuckets
    \/ SortBuckets_main

NextSort == SortTasks \/ SortTasks_main

NextFmt == FormatDueDate \/ FormatDueDate_main

NextDetails == AppendSection \/ AppendSection_main

NextBlocks == BuildSlackBlocks \/ BuildSlackBlocks_main

NextRun ==
    \/ Run_start
    \/ Run_start_part002
    \/ main_start
    \/ FetchNotionTasks
    \/ FetchNotionTasks_main
    \/ Run_continue
    \/ Run_continue_part002
    \/ main_continue
    \/ PostMessage
    \/ PostMessage_main

\* grouping, then the sort of each group
SpecGroup == InitGroup /\ [][NextGroup]_vars
\* sortTasks on a list
SpecSort == InitSort /\ [][NextSort]_vars
\* formatDueDate on every task of a list
SpecFmt == InitFmt /\ [][NextFmt]_vars
\* appendSection on a list of one task
SpecDetails == InitDetails /\ [][NextDetails]_vars
\* buildSlackBlocks on a list
SpecBlocks == InitBlocks /\ [][NextBlocks]_vars
\* a run of the notifier, from its start to its exit
SpecRun == InitRun /\ [][NextRun]_vars

-----------------------------------------------------------------------------
(* The filter of the earlier generation, and what main does with the tasks *)
(* it retains.                                                             *)

\* longest task list handed to filterTasks
MaxFilterTasks == 2

\* the clock readings of a run of the filter: those of Nows, and 20:00 in
\* Japan
FilterNows == Nows \cup {Date(Today, 20, 0, 0, JST)}

\* start and end of the tasks handed to the filter: no date, a day from
\* yesterday on, the last second of yesterday and of today in Japan, a
\* range that starts today
FilterDates ==
    {<<nil, nil>>}
      \cup {<<Ptr(DateOnly(d)), nil>> : d \in DueDays}
      \cup {<<Ptr(EndOfDay(d)), nil>> : d \in {Today - 1, Today}}
      \cup {<<Ptr(DateOnly(Today)), Ptr(DateOnly(Today + 5))>>}

\* the values that parseNotionPage accepts for the notify days of a task
NotifyDaysValues == {1, 3, 7}

\* the list of k tasks whose i-th task has ID i, the dates f[i][1] and the
\* notify days f[i][2]
MakeFilterTasks(f, k) ==
    [i \in 1..k |-> [Task(i, f[i][1][1], f[i][1][2], "High") EXCEPT !.NotifyDays = f[i][2]]]

InitFilter ==
    /\ now \in FilterNows
    /\ \E k \in 1..MaxFilterTasks : \E f \in [1..k -> FilterDates \X NotifyDaysValues] :
         tasks = MakeFilterTasks(f, k)
    /\ NoResults
    /\ NoRun
    /\ NoTwin
    /\ NoWorkflow

ShouldNotify ==
    /\ op = "input"
    /\ notify' = [i \in 1..Len(tasks) |-> shouldNotify(tasks[i], now)]
    /\ op' = "shouldNotify"
    /\ UNCHANGED <<now, tasks, today, threeDays, sevenDays, sorted, rendered, built>>
    /\ UNCHANGED runVars
    /\ UNCHANGED <<toNotify, twin, twinOut>>
    /\ UNCHANGED cronVars

FilterTasks ==
    /\ op = "input"
    /\ toNotify' = filterTasks(tasks, now)
    /\ op' = "filterTasks"
    /\ UNCHANGED <<now, tasks, today, threeDays, sevenDays, sorted, rendered, built>>
    /\ UNCHANGED runVars
    /\ UNCHANGED <<notify, twin, twinOut>>
    /\ UNCHANGED cronVars

\* main hands the tasks that the filter retained, when there is one, to
\* buildSlackBlocks, which groups them
BuildSlackBlocks_toNotify ==
    /\ op = "filterTasks"
    /\ Len(toNotify) # 0
    /\ LET g == groupTasksByUrgency_main(toNotify, now)
       IN /\ today' = g.today
          /\ threeDays' = g.threeDays
          /\ sevenDays' = g.sevenDays
    /\ built' = Built(buildSlackBlocks_main(toNotify, now), "")
    /\ op' = "buildSlackBlocks_toNotify"
    /\ UNCHANGED <<now, tasks, sorted, rendered>>
    /\ UNCHANGED runVars
    /\ UNCHANGED filterVars
    /\ UNCHANGED cronVars

NextFilter ==
    \/ ShouldNotify
    \/ FilterTasks
    \/ BuildSlackBlocks_toNotify

\* shouldNotify on every task of a list; filterTasks on the list, then the
\* blocks of the tasks it retained
SpecFilter == InitFilter /\ [][NextFilter]_vars

-----------------------------------------------------------------------------
(* The filter, the grouping and the sort applied to two lists that differ  *)
(* in the fields of their tasks that are only shown.                       *)

\* longest task list of a pair
MaxPairTasks == 2

\* type, schedule status, workload and memo of a task: none of them set, all
\* of them set
Shown ==
    {[Type |-> <<>>, ScheduleStatus |-> "", Workload |-> 0, Memo |-> <<>>],
     [Type |-> Ascii("Work"), ScheduleStatus |-> "ToDo", Workload |-> 1,
      Memo |-> Ascii("memo")]}

WithShown(task, f) ==
    [task EXCEPT !.Type = f.Type, !.ScheduleStatus = f.ScheduleStatus,
                 !.Workload = f.Workload, !.Memo = f.Memo]

\* start and end of the tasks of a pair: no date, today, in 2 and in 5 days
PairDates ==
    {<<nil, nil>>} \cup {<<Ptr(DateOnly(Today + k)), nil>> : k \in {0, 2, 5}}

\* a morning run and an urgent run
PairNows == {Date(Today, 0, 0, 0, UTC), Date(Today, 13, 0, 0, JST)}

\* both lists have the dates f[i][1] for their i-th task; the shown fields
\* are f[i][2] in the first list and f[i][3] in the second
InitPair ==
    /\ now \in PairNows
    /\ \E k \in 1..MaxPairTasks : \E f \in [1..k -> PairDates \X Shown \X Shown] :
         /\ tasks = [i \in 1..k |-> WithShown(Task(i, f[i][1][1], f[i][1][2], "High"), f[i][2])]
         /\ twin = [i \in 1..k |-> WithShown(Task(i, f[i][1][1], f[i][1][2], "High"), f[i][3])]
    /\ NoResults
    /\ NoRun
    /\ twinOut = TwinOut(<<>>, NoGroups, <<>>)
    /\ NoWorkflow

FilterTasks_pair ==
    /\ op = "input"
    /\ toNotify' = filterTasks(tasks, now)
    /\ twinOut' = [twinOut EXCEPT !.toNotify = filterTasks(twin, now)]
    /\ op' = "filterTasks_pair"
    /\ UNCHANGED <<now, tasks, today, threeDays, sevenDays, sorted, rendered, built>>
    /\ UNCHANGED runVars
    /\ UNCHANGED <<notify, twin>>
    /\ UNCHANGED cronVars

GroupTasksByUrgency_pair ==
    /\ op = "input"
    /\ LET g == groupTasksByUrgency(tasks, now)
       IN /\ today' = g.today
          /\ threeDays' = g.threeDays
          /\ sevenDays' = g.sevenDays
    /\ twinOut' = [twinOut EXCEPT !.groups = groupTasksByUrgency(twin, now)]
    /\ op' = "groupTasksByUrgency_pair"
    /\ UNCHANGED <<now, tasks, sorted, rendered, built>>
    /\ UNCHANGED runVars
    /\ UNCHANGED <<notify, toNotify, twin>>
    /\ UNCHANGED cronVars

GroupTasksByUrgency_main_pair ==
    /\ op = "input"
    /\ LET g == groupTasksByUrgency_main(tasks, now)
       IN /\ today' = g.today
          /\ threeDays' = g.threeDays
          /\ sevenDays' = g.sevenDays
    /\ twinOut' = [twinOut EXCEPT !.groups = groupTasksByUrgency_main(twin, now)]
    /\ op' = "groupTasksByUrgency_main_pair"
    /\ UNCHANGED <<now, tasks, sorted, rendered, built>>
    /\ UNCHANGED runVars
    /\ UNCHANGED <<notify, toNotify, twin>>
    /\ UNCHANGED cronVars

SortTasks_pair ==
    /\ op = "input"
    /\ sorted' = sortTasks(tasks)
    /\ twinOut' = [twinOut EXCEPT !.sorted = sortTasks(twin)]
    /\ op' = "sortTasks_pair"
    /\ UNCHANGED <<now, tasks, today, threeDays, sevenDays, rendered, built>>
    /\ UNCHANGED runVars
    /\ UNCHANGED <<notify, toNotify, twin>>
    /\ UNCHANGED cronVars

SortTasks_main_pair ==
    /\ op = "input"
    /\ sorted' = sortTasks_main(tasks)
    /\ twinOut' = [twinOut EXCEPT !.sorted = sortTasks_main(twin)]
    /\ op' = "sortTasks_main_pair"
    /\ UNCHANGED <<now, tasks, today, threeDays, sevenDays, rendered, built>>
    /\ UNCHANGED runVars
    /\ UNCHANGED <<notify, toNotify, twin>>
    /\ UNCHANGED cronVars

NextPair ==
    \/ FilterTasks_pair
    \/ GroupTasksByUrgency_pair
    \/ GroupTasksByUrgency_main_pair
    \/ SortTasks_pair
    \/ SortTasks_main_pair

\* one operation applied to both lists of a pair
SpecPair == InitPair /\ [][NextPair]_vars

-----------------------------------------------------------------------------
(* The job of the workflow.  A step runs when no step before it failed and *)
(* its if holds; the job ends after its last step.                         *)

\* the runner's clock when the event triggers the workflow: the hour of the
\* schedule, and the sixth hour for a workflow started by hand
triggerTime(ev) ==
    IF ev.name = "schedule"
    THEN Date(Today, cronHour(ev.schedule), 0, 0, UTC)
    ELSE Date(Today, 6, 0, 0, UTC)

\* the settings of the job are the secrets of the repository
InitCron ==
    /\ event \in Events
    /\ now = triggerTime(event)
    /\ tasks = <<>>
    /\ NoResults
    /\ prog = "none"
    /\ pc = "none"
    /\ env \in Envs
    /\ flag = <<>>
    /\ daysLater = 0
    /\ targetDate = NoDate
    /\ records = <<>>
    /\ cursor = 0
    /\ queries = <<>>
    /\ fetched = NotFetched
    /\ posts = <<>>
    /\ exitCode = Running
    /\ NoTwin
    /\ step = 1
    /\ job = "success"
    /\ executions = <<>>

\* what a step leaves alone
stepVars == <<now, tasks, built, prog, pc, env, daysLater, targetDate, records,
              cursor, queries, fetched, posts>>

\* checkout, setup-go and go build end well or fail
Step_setup ==
    /\ step \in 1..Len(Steps)
    /\ step \notin NotifierSteps
    /\ job = "success"
    /\ stepIf(step, event)
    /\ \E ok \in BOOLEAN : job' = IF ok THEN "success" ELSE "failure"
    /\ step' = step + 1
    /\ UNCHANGED <<event, executions, flag, exitCode>>
    /\ UNCHANGED stepVars
    /\ UNCHANGED opVars
    /\ UNCHANGED filterVars

\* a step whose if does not hold, or that follows a failed step, is skipped
Step_skipped ==
    /\ step \in 1..Len(Steps)
    /\ job = "failure" \/ ~stepIf(step, event)
    /\ step' = step + 1
    /\ UNCHANGED <<event, job, executions, flag, exitCode>>
    /\ UNCHANGED stepVars
    /\ UNCHANGED opVars
    /\ UNCHANGED filterVars

\* a step that runs the notifier with its flag; the notifier ends fatally
\* when a setting is missing, and else well, fatally or with a panic; an
\* exit code other than 0 fails the step
Step_notifier ==
    /\ step \in NotifierSteps
    /\ job = "success"
    /\ stepIf(step, event)
    /\ executions' = Append(executions, Command("./notion-notifier", stepFlag(step)))
    /\ flag' = stepFlag(step)
    /\ \E code \in {ExitOK, ExitFatal, ExitPanic} :
         /\ missingSetting(env) => code = ExitFatal
         /\ exitCode' = code
         /\ job' = IF code = ExitOK THEN "success" ELSE "failure"
    /\ step' = step + 1
    /\ UNCHANGED event
    /\ UNCHANGED stepVars
    /\ UNCHANGED opVars
    /\ UNCHANGED filterVars

NextCron ==
    \/ Step_setup
    \/ Step_skipped
    \/ Step_notifier

\* one job of the workflow, from its trigger to its last step
SpecCron == InitCron /\ [][NextCron]_vars

-----------------------------------------------------------------------------
(* Vocabulary of the properties.                                           *)

\* midnight of now's calendar date
todayStart == Date(YMD(now), 0, 0, 0, now.z)

\* the effective due date as the specification words it
EffectiveDueDate(task) == IF task.DueEnd # nil THEN task.DueEnd ELSE task.DueStart

Grouped == op \in {"groupTasksByUrgency", "groupTasksByUrgency_main"}
BucketsSorted == op \in {"sortBuckets", "sortBuckets_main"}
Sorted == op \in {"sortTasks", "sortTasks_main"}
Formatted == op \in {"formatDueDate", "formatDueDate_main"}

\* how often the task with this ID stands in a group
Occurs(bucket, id) == Cardinality({k \in 1..Len(bucket) : bucket[k].ID = id})
Placed(id) == Occurs(today, id) + Occurs(threeDays, id) + Occurs(sevenDays, id)

\* a group lists its tasks of equal priority by effective due date
ByDueDate(bucket) ==
    \A i, j \in 1..Len(bucket) :
        (/\ i < j
         /\ bucket[i].Priority = bucket[j].Priority
         /\ EffectiveDueDate(bucket[i]) # nil
         /\ EffectiveDueDate(bucket[j]) # nil)
        => ~Before(Deref(EffectiveDueDate(bucket[j])), Deref(EffectiveDueDate(bucket[i])))

-----------------------------------------------------------------------------
(* C1: groupTasksByUrgency puts no task in more than one of the three      *)
(* groups, and every task whose effective due date exists and is not later *)
(* than todayStart + 7 days is in exactly one group.                       *)
C1_Partition ==
    Grouped =>
      \A i \in 1..Len(tasks) :
        LET d == EffectiveDueDate(tasks[i])
        IN /\ Placed(i) <= 1
           /\ (d # nil /\ Deref(d).s <= todayStart.s + 7 * SecPerDay) => Placed(i) = 1

\* a task due at exactly todayStart + 7 days is grouped, next to a task
\* without any date that is in no group
C1_Witness ==
    /\ op = "groupTasksByUrgency"
    /\ \E i, j \in 1..Len(tasks) :
         /\ EffectiveDueDate(tasks[i]) # nil
         /\ Deref(EffectiveDueDate(tasks[i])).s = todayStart.s + 7 * SecPerDay
         /\ Occurs(sevenDays, i) = 1
         /\ EffectiveDueDate(tasks[j]) = nil
         /\ Placed(j) = 0

(* C2: getTargetDueDate returns dueEnd whenever dueEnd is present, dueStart *)
(* when only dueStart is present, and no date when both are absent; a task  *)
(* that starts today and ends five days later is grouped by its end (the    *)
(* 7-day group, not today's), and the sort of a group orders it by its end. *)
C2_TargetDueDate ==
    /\ \A i \in 1..Len(tasks) :
         LET t == tasks[i]
         IN /\ t.DueEnd # nil => getTargetDueDate(t) = t.DueEnd
            /\ (t.DueEnd = nil /\ t.DueStart # nil) => getTargetDueDate(t) = t.DueStart
            /\ (t.DueEnd = nil /\ t.DueStart = nil) => getTargetDueDate(t) = nil
    /\ Grouped =>
         \A i \in 1..Len(tasks) :
           (/\ tasks[i].DueStart = Ptr(DateOnly(Today))
            /\ tasks[i].DueEnd = Ptr(DateOnly(Today + 5)))
           => (Occurs(sevenDays, i) = 1 /\ Occurs(today, i) = 0)
    /\ BucketsSorted =>
         (ByDueDate(today) /\ ByDueDate(threeDays) /\ ByDueDate(sevenDays))

\* a task that starts today and ends in five days has been sorted behind a
\* task due a day before that end
C2_Witness ==
    /\ op = "sortBuckets"
    /\ Len(sevenDays) = 2
    /\ sevenDays[1].ID = 2
    /\ sevenDays[2].ID = 1
    /\ sevenDays[2].DueStart = Ptr(DateOnly(Today))
    /\ sevenDays[2].DueEnd = Ptr(DateOnly(Today + 5))
    /\ sevenDays[1].DueEnd = nil

(* C3: a task is in the DueToday group only when its effective due date d   *)
(* satisfies todayStart <= d < todayStart + 1 day; an overdue task is never *)
(* in the DueToday group.                                                   *)
C3_TodayGroupIsToday ==
    Grouped =>
      \A k \in 1..Len(today) :
        LET d == Deref(EffectiveDueDate(today[k]))
        IN todayStart.s <= d.s /\ d.s < todayStart.s + SecPerDay

(* C4: a task due at exactly todayStart is in the DueToday group, and a     *)
(* task due at exactly todayStart + 3 days 00:00:00 is in the 3-day group,  *)
(* not the 7-day group.                                                     *)
C4_Boundaries ==
    Grouped =>
      \A i \in 1..Len(tasks) :
        LET d == EffectiveDueDate(tasks[i])
        IN d # nil =>
             /\ Deref(d).s = todayStart.s => Occurs(today, i) = 1
             /\ Deref(d).s = todayStart.s + 3 * SecPerDay
                  => (Occurs(threeDays, i) = 1 /\ Occurs(sevenDays, i) = 0)

\* both boundary instants occur in one list and are grouped
C4_Witness ==
    /\ op = "groupTasksByUrgency_main"
    /\ \E i, j \in 1..Len(tasks) :
         /\ EffectiveDueDate(tasks[i]) # nil
         /\ Deref(EffectiveDueDate(tasks[i])).s = todayStart.s
         /\ Occurs(today, i) = 1
         /\ EffectiveDueDate(tasks[j]) # nil
         /\ Deref(EffectiveDueDate(tasks[j])).s = todayStart.s + 3 * SecPerDay
         /\ Occurs(threeDays, j) = 1

-----------------------------------------------------------------------------
\* the rank the specification gives each priority
SpecRank(p) ==
    CASE p = "High" -> 1
      [] p = "Medium" -> 2
      [] p = "Low" -> 3
      [] OTHER -> 4

(* C5: after sortTasks no task precedes a task of strictly more urgent      *)
(* priority, with High < Medium < Low < unset.                              *)
C5_PriorityOrder ==
    Sorted =>
      \A i, j \in 1..Len(sorted) :
        i < j => SpecRank(sorted[i].Priority) <= SpecRank(sorted[j].Priority)

SameDue(a, b) ==
    LET da == EffectiveDueDate(a)
        db == EffectiveDueDate(b)
    IN IF da = nil \/ db = nil THEN da = nil /\ db = nil
       ELSE Equal(Deref(da), Deref(db))

\* where the task with this ID stands after the sort
Pos(id) == CHOOSE k \in 1..Len(sorted) : sorted[k].ID = id

(* C7: sortTasks returns a permutation of its input in which two tasks with *)
(* equal priority and equal effective due date keep their input order.      *)
C7_Stable ==
    Sorted =>
      /\ Len(sorted) = Len(tasks)
      /\ \A i \in 1..Len(tasks) : \E k \in 1..Len(sorted) : sorted[k] = tasks[i]
      /\ \A k \in 1..Len(sorted) : sorted[k] = tasks[sorted[k].ID]
      /\ \A a, b \in 1..Len(tasks) :
           (a < b /\ tasks[a].Priority = tasks[b].Priority /\ SameDue(tasks[a], tasks[b]))
           => Pos(a) < Pos(b)

\* the sort moved a task to the front, past two tasks that tie on both
\* keys (the same instant written in two locations) and kept their order
C7_Witness ==
    /\ op = "sortTasks"
    /\ Len(tasks) = 3
    /\ sorted[1] = tasks[3]
    /\ sorted[2] = tasks[1]
    /\ sorted[3] = tasks[2]
    /\ tasks[1].Priority = tasks[2].Priority
    /\ tasks[1].DueStart # tasks[2].DueStart
    /\ SameDue(tasks[1], tasks[2])
    /\ tasks[1].DueStart # nil

-----------------------------------------------------------------------------
IsDateTok(x) == x.k \in {"01/02", "2006-01-02"}
IsTimeTok(x) == x.k = "15:04"

\* the time of day means something: it is not midnight (00:00)
Meaningful(t) == Hour(t) # 0 \/ Minute(t) # 0

(* C8: for a task with exactly one of dueStart / dueEnd, formatDueDate      *)
(* returns without failing the rendering of that date, with the time of day *)
(* whenever that time is not midnight.                                      *)
C8_SingleDate ==
    Formatted =>
      \A i \in 1..Len(tasks) :
        LET t == tasks[i]
            r == rendered[i]
            one == IF t.DueStart # nil THEN t.DueStart ELSE t.DueEnd
        IN ((t.DueStart = nil) # (t.DueEnd = nil)) =>
             /\ r.err = ""
             /\ \E k \in 1..Len(r.str) : IsDateTok(r.str[k]) /\ r.str[k].a = YMD(Deref(one))
             /\ Meaningful(Deref(one))
                  => \E k \in 1..Len(r.str) : r.str[k] = HourMinute(Deref(one))

(* C9: for a task whose dueStart and dueEnd are both present and on the     *)
(* same calendar day, formatDueDate renders the date exactly once, followed *)
(* by a time range built only from the non-midnight time components.        *)
C9_SameDay ==
    Formatted =>
      \A i \in 1..Len(tasks) :
        LET t == tasks[i]
            r == rendered[i]
        IN (/\ t.DueStart # nil
            /\ t.DueEnd # nil
            /\ YMD(Deref(t.DueStart)) = YMD(Deref(t.DueEnd))) =>
             /\ r.err = ""
             /\ Len(r.str) >= 1
             /\ IsDateTok(r.str[1])
             /\ r.str[1].a = YMD(Deref(t.DueEnd))
             /\ Len(SelectSeq(r.str, IsDateTok)) = 1
             /\ SelectSeq(r.str, IsTimeTok) =
                  (IF Meaningful(Deref(t.DueStart))
                   THEN <<HourMinute(Deref(t.DueStart))>> ELSE <<>>)
                  \o (IF Meaningful(Deref(t.DueEnd))
                      THEN <<HourMinute(Deref(t.DueEnd))>> ELSE <<>>)

(* C10: for a task with both dueStart and dueEnd absent, formatDueDate      *)
(* signals an error and returns no placeholder string.                      *)
C10_BothAbsent ==
    Formatted =>
      \A i \in 1..Len(tasks) :
        (tasks[i].DueStart = nil /\ tasks[i].DueEnd = nil)
        => (rendered[i].err # "" /\ rendered[i].str = <<>>)

-----------------------------------------------------------------------------
(* appendSection: the detail line and the memo.                            *)

Appended == op \in {"appendSection", "appendSection_main"}

\* the block of the i-th task of the section, which follows the divider and
\* the title of the section
TaskBlock(i) == built.blocks[2 + i]
\* the detail line of that block: what follows the title line
DetailLine(i) ==
    LET text == TaskBlock(i).text
    IN SubSeq(text, Len(strTaskTitle(tasks[i])) + 2, Len(text))

\* the configured maximum of the detail line
MaxDetail == IF op = "appendSection_main" THEN 2900 ELSE MAX_MESSAGE_LENGTH

(* C11: the detail line of every task that appendSection renders, taken as  *)
(* it stands in the block with its ellipsis, is at most as long as the      *)
(* configured maximum (3000, and 2900 in the earlier generation).           *)
C11_DetailLineWithinMaximum ==
    Appended => \A i \in 1..Len(tasks) : Len(DetailLine(i)) <= MaxDetail

\* the memo as it stands in the detail line: what follows the label of the
\* memo, the last field of the line
ShownMemo(i) ==
    LET line == DetailLine(i)
        at == CHOOSE j \in 1..Len(line) : line[j].k = "*memo:* " /\ line[j].i = 1
    IN SubSeq(line, at + 10, Len(line))

\* the configured maximum of the memo
MaxMemo == IF op = "appendSection_main" THEN maxMemoLength ELSE MAX_MEMO_LENGTH

\* the detail line was not cut, so the memo stands in it as it was rendered
LineNotCut(i) == Len(DetailLine(i)) <= MaxDetail

\* the positions of s, from lo to hi, where a character starts
Starts(s, lo, hi) == {j \in lo..hi : s[j].i = 1}
\* the number of characters of s
Chars(s) == Cardinality(Starts(s, 1, Len(s)))
\* the position between lo and hi where the k-th character from lo starts
RECURSIVE KthStart(_, _, _, _)
KthStart(s, lo, hi, k) ==
    IF lo = hi THEN lo
    ELSE LET mid == (lo + hi) \div 2
             c == Cardinality(Starts(s, lo, mid))
         IN IF k <= c THEN KthStart(s, lo, mid, k)
            ELSE KthStart(s, mid + 1, hi, k - c)
\* the first n characters of s
FirstChars(s, n) ==
    IF Chars(s) <= n THEN s
    ELSE SubSeq(s, 1, KthStart(s, 1, Len(s), n + 1) - 1)

\* a rendered memo without the backslashes that escaping added (no memo of
\* the model holds a backslash)
NotBackslash(b) == b.k # "\\"
Unescaped(s) == SelectSeq(s, NotBackslash)

(* C12: a memo of more characters than the configured memo maximum (1000,   *)
(* and 150 in the earlier generation) is shown as its first `maximum`       *)
(* characters followed by "...", and a memo of at most that many characters *)
(* is shown in full without an ellipsis.                                    *)
C12_MemoTruncation ==
    Appended =>
      \A i \in 1..Len(tasks) :
        LET memo == tasks[i].Memo
        IN (memo # <<>> /\ LineNotCut(i)) =>
             Unescaped(ShownMemo(i)) =
               IF Chars(memo) > MaxMemo
               THEN FirstChars(memo, MaxMemo) \o Ascii("...")
               ELSE memo

\* the characters that Slack's markdown reads as markup
MarkdownChars == {"*", "_", "~", Backquote}

(* C13: in the generation that escapes the memo, every "*", "_", "~" and    *)
(* backquote of the (truncated) memo stands in the rendered memo right      *)
(* after a backslash.                                                       *)
C13_MemoEscaped ==
    op = "appendSection_main" =>
      \A i \in 1..Len(tasks) :
        (tasks[i].Memo # <<>> /\ LineNotCut(i)) =>
          LET shown == ShownMemo(i)
          IN \A j \in 1..Len(shown) :
               shown[j].k \in MarkdownChars => (j > 1 /\ shown[j - 1].k = "\\")

-----------------------------------------------------------------------------
(* buildSlackBlocks: the order of the sections and the footer.             *)

BlocksBuilt == op \in {"buildSlackBlocks", "buildSlackBlocks_main"}

\* the three groups of the list, in the order of urgency
Buckets ==
    LET g == IF op = "buildSlackBlocks_main"
             THEN groupTasksByUrgency_main(tasks, now)
             ELSE groupTasksByUrgency(tasks, now)
    IN <<g.today, g.threeDays, g.sevenDays>>

Titles == <<TodayTitle, ThreeDaysTitle, SevenDaysTitle>>
IsTitle(block) == \E n \in 1..3 : block = NewSectionBlock(sectionTitle(Titles[n]))
\* the titles of the sections that have a task, most urgent first
ExpectedTitles ==
    LET NonEmpty(n) == Buckets[n] # <<>>
    IN [j \in 1..Cardinality({n \in 1..3 : NonEmpty(n)}) |->
          LET n == CHOOSE m \in 1..3 :
                     NonEmpty(m) /\ Cardinality({l \in 1..m : NonEmpty(l)}) = j
          IN NewSectionBlock(sectionTitle(Titles[n]))]
\* the footer holds the time stamp of the run
IsFooter(block) ==
    /\ block.type = "context"
    /\ \E j \in 1..Len(block.text) :
         block.text[j].k = "RFC1123" /\ block.text[j].a = now.s

(* C14: the message of buildSlackBlocks names the sections in the order     *)
(* DueToday, 3-day, 7-day; a group without a task adds no title and no      *)
(* block; the tasks of a group follow its title; the last block of every    *)
(* message that is not empty is the footer with the time stamp.             *)
C14_SectionsAndFooter ==
    (BlocksBuilt /\ built.err = "" /\ built.blocks # <<>>) =>
      LET B == built.blocks
          Size(n) == IF Buckets[n] = <<>> THEN 0 ELSE 2 + Len(Buckets[n])
      IN /\ SelectSeq(B, IsTitle) = ExpectedTitles
         /\ Len(B) = 1 + Size(1) + Size(2) + Size(3) + 2
         /\ \A n \in 1..3 : \A p \in 1..Len(B) :
              B[p] = NewSectionBlock(sectionTitle(Titles[n])) =>
                /\ B[p - 1] = NewDividerBlock
                /\ \A q \in (p + 1)..(p + Len(Buckets[n])) :
                     B[q].type = "section" /\ ~IsTitle(B[q])
         /\ IsFooter(B[Len(B)])

\* a message with the sections of today and of the 7 days, and none for the
\* 3 days, which have no task
C14_Witness ==
    /\ op = "buildSlackBlocks"
    /\ built.err = ""
    /\ Buckets[1] # <<>>
    /\ Buckets[2] = <<>>
    /\ Buckets[3] # <<>>
    /\ IsFooter(built.blocks[Len(built.blocks)])

-----------------------------------------------------------------------------
(* The run.                                                                *)

\* fetchNotionTasks has returned, without an error
FetchReturned == pc \in {"returned", "post", "exit"} /\ queries # <<>>
FetchOK == FetchReturned /\ fetched.err = ""
\* the run has ended
Exited == pc = "exit"

\* the tasks retained for the notification: the tasks fetched, which the
\* earlier generation filters
Retained ==
    IF prog = "main_main" THEN filterTasks(fetched.tasks, now) ELSE fetched.tasks

(* C15: in a run that retains no task for the notification (the fetch       *)
(* returned no task, or the filter kept none) no message is posted, none is *)
(* about to be, and the run ends with exit code 0.                          *)
C15_NoMessageWithoutTasks ==
    (FetchOK /\ Retained = <<>>) =>
      /\ posts = <<>>
      /\ pc # "post"
      /\ Exited => exitCode = ExitOK

\* the settings have been read
Started == pc # "start"
\* one of the four settings is empty
AnySettingEmpty == \E k \in DOMAIN env : env[k] = ""

(* C16: when one of the four settings is empty the run ends fatally right   *)
(* after reading them: it never queries the task source and never posts.    *)
C16_FatalWithoutSettings ==
    (Started /\ AnySettingEmpty) =>
      /\ Exited
      /\ exitCode = ExitFatal
      /\ queries = <<>>
      /\ posts = <<>>

\* a run that ended with the channel id as its one missing setting
C16_Witness ==
    /\ Exited
    /\ exitCode = ExitFatal
    /\ env = Env("x", "x", "x", "")
    /\ queries = <<>>
    /\ posts = <<>>

FetchFailed == FetchReturned /\ fetched.err # ""
BuildFailed == built.err # ""

(* C17: a run posts at most one message, and only after fetchNotionTasks    *)
(* and the building of the blocks returned without an error; a run whose    *)
(* fetch or whose building of a section failed has posted no message when   *)
(* it ends, and it ends as a failed run.                                    *)
C17_OnePostAfterSuccess ==
    /\ Len(posts) <= 1
    /\ posts # <<>> => (FetchOK /\ ~BuildFailed)
    /\ (Exited /\ (FetchFailed \/ BuildFailed)) =>
         (posts = <<>> /\ exitCode # ExitOK)

\* a run of rootCmd.Run that posted its one message and ended well
C17_Witness ==
    /\ prog = "rootCmd.Run"
    /\ Exited
    /\ exitCode = ExitOK
    /\ Len(posts) = 1
    /\ posts[1].blocks = built.blocks
    /\ built.blocks # <<>>

-----------------------------------------------------------------------------
(* fetchNotionTasks.                                                       *)

\* the records of the pages that were asked for
Answered ==
    IF Len(queries) * ServerPageSize < Len(records)
    THEN SubSeq(records, 1, Len(queries) * ServerPageSize)
    ELSE records
\* every query was answered
NoQueryFailed == fetched # QueryFailed

\* a record with a title and a date
Valid(page) == page.Name # "" /\ page.Due # <<nil, nil>>
\* a record that the current generation leaves out on purpose: its end
\* lies after the query window
PastWindow(page) ==
    /\ prog # "main_main"
    /\ page.Due[2] # nil
    /\ After(Deref(page.Due[2]), targetDate)
Wanted(page) == Valid(page) /\ ~PastWindow(page)

\* the IDs of a list of tasks or records, in their order
IDs(list) == [i \in 1..Len(list) |-> list[i].ID]

(* C18: when the answer holds a record without a title or without any due  *)
(* date, fetchNotionTasks skips that record and nothing else: it returns,   *)
(* without an error, the other records of the pages it asked for.           *)
C18_SkipsInvalidRecords ==
    (FetchReturned /\ NoQueryFailed) =>
      /\ fetched.err = ""
      /\ IDs(fetched.tasks) = IDs(SelectSeq(Answered, Wanted))

(* C19: fetchNotionTasks asks for one page after the other, the first with  *)
(* the empty cursor and each next one with the cursor of the answer before, *)
(* until an answer has no more; what it returns is, in their order, the     *)
(* valid records of all the pages.                                          *)
C19_AllPagesFetched ==
    FetchOK =>
      /\ queries[1] = 0
      /\ \A j \in 1..(Len(queries) - 1) :
           /\ Query(records, queries[j]).HasMore
           /\ queries[j + 1] = Query(records, queries[j]).NextCursor
      /\ ~Query(records, queries[Len(queries)]).HasMore
      /\ IDs(fetched.tasks) = IDs(SelectSeq(records, Wanted))

-----------------------------------------------------------------------------
(* The lookahead of rootCmd.Run.                                           *)

(* C20: the lookahead that rootCmd.Run uses for the end of its query window *)
(* is at most 3 for every value of the daysLater flag: 3 for a value above  *)
(* 3, the value itself from 0 to 3, and 0 when the flag is not given; the   *)
(* window ends at the end of the day that many days from today.             *)
C20_LookaheadAtMostThree ==
    (prog = "rootCmd.Run" /\ Started) =>
      /\ daysLater <= 3
      /\ flag = <<>> => daysLater = 0
      /\ (flag # <<>> /\ flag[1] > 3) => daysLater = 3
      /\ (flag # <<>> /\ flag[1] \in 0..3) => daysLater = flag[1]
      /\ ~AnySettingEmpty =>
           /\ YMD(targetDate) = YMD(now) + daysLater
           /\ targetDate = Date(YMD(targetDate), 23, 59, 59, now.z)

\* a run with --daysLater 5, whose window ends with the third day from today
C20_Witness ==
    /\ prog = "rootCmd.Run"
    /\ pc = "fetch"
    /\ flag = <<5>>
    /\ daysLater = 3
    /\ YMD(targetDate) = YMD(now) + 3

-----------------------------------------------------------------------------
(* The tiers of groupTasksByUrgency.                                       *)

(* C21: groupTasksByUrgency puts a task in the 3-day group exactly when its *)
(* effective due date d satisfies todayStart + 1 day <= d <= todayStart + 3 *)
(* days, and in the 7-day group exactly when todayStart + 3 days < d <=     *)
(* todayStart + 7 days; a task due later on the third day than todayStart + *)
(* 3 days 00:00:00 is not in the 3-day group.                               *)
C21_TierBoundaries ==
    Grouped =>
      \A i \in 1..Len(tasks) :
        LET d == EffectiveDueDate(tasks[i])
            inThree == /\ d # nil
                       /\ todayStart.s + SecPerDay <= Deref(d).s
                       /\ Deref(d).s <= todayStart.s + 3 * SecPerDay
            inSeven == /\ d # nil
                       /\ todayStart.s + 3 * SecPerDay < Deref(d).s
                       /\ Deref(d).s <= todayStart.s + 7 * SecPerDay
        IN /\ Occurs(threeDays, i) = 1 <=> inThree
           /\ Occurs(sevenDays, i) = 1 <=> inSeven

-----------------------------------------------------------------------------
(* Tasks without a due date in sortTasks.                                  *)

Undated(task) == EffectiveDueDate(task) = nil

(* C22: after sortTasks, among the tasks of one priority every task without *)
(* an effective due date comes after every task that has one, and the tasks *)
(* without an effective due date keep their input order.                    *)
C22_UndatedLast ==
    Sorted =>
      /\ \A i, j \in 1..Len(sorted) :
           (/\ i < j
            /\ sorted[i].Priority = sorted[j].Priority
            /\ Undated(sorted[i]))
           => Undated(sorted[j])
      /\ \A a, b \in 1..Len(tasks) :
           (/\ a < b
            /\ tasks[a].Priority = tasks[b].Priority
            /\ Undated(tasks[a])
            /\ Undated(tasks[b]))
           => Pos(a) < Pos(b)

-----------------------------------------------------------------------------
(* The filter of the earlier generation.                                   *)

\* the calendar day of the effective due date of a task that has one
DueDay(task) == YMD(Deref(EffectiveDueDate(task)))
\* the whole days from now's calendar day to the due day
DaysRemaining(task) == DueDay(task) - YMD(now)

\* what the specification asks of a task to notify
InWindow(task) ==
    /\ EffectiveDueDate(task) # nil
    /\ DueDay(task) >= YMD(now)
    /\ DaysRemaining(task) <= task.NotifyDays

(* C23: shouldNotify(task, now) is true exactly when the task has an        *)
(* effective due date, the calendar day of that date is not before now's    *)
(* calendar day, and the whole days from todayStart to midnight of the due  *)
(* day are at most the notify days of the task.                             *)
C23_ShouldNotify ==
    op = "shouldNotify" =>
      /\ Len(notify) = Len(tasks)
      /\ \A i \in 1..Len(tasks) : notify[i] <=> InWindow(tasks[i])

\* a task due on the last day of its window is to notify, a task due the
\* day after its window is not
C23_Witness ==
    /\ op = "shouldNotify"
    /\ \E i, j \in 1..Len(tasks) :
         /\ EffectiveDueDate(tasks[i]) # nil
         /\ DaysRemaining(tasks[i]) = tasks[i].NotifyDays
         /\ notify[i]
         /\ EffectiveDueDate(tasks[j]) # nil
         /\ DaysRemaining(tasks[j]) = tasks[j].NotifyDays + 1
         /\ ~notify[j]

\* the run is an urgent run: now's hour is 13 or 20
Urgent == Hour(now) \in {13, 20}
Filtered == op \in {"filterTasks", "buildSlackBlocks_toNotify"}
\* the section with this title is in the message
HasSection(title) ==
    \E j \in 1..Len(built.blocks) : built.blocks[j] = NewSectionBlock(sectionTitle(title))

(* C24: in an urgent run (now's hour is 13 or 20) every task that           *)
(* filterTasks returns is due on now's calendar day, and the message of     *)
(* that run has no 3-day and no 7-day section; at every other hour          *)
(* filterTasks returns, in input order, exactly the tasks to notify.        *)
C24_UrgentRunTodayOnly ==
    /\ (Filtered /\ Urgent) =>
         /\ toNotify = SelectSeq(tasks, LAMBDA t : InWindow(t) /\ DueDay(t) = YMD(now))
         /\ \A k \in 1..Len(toNotify) : DueDay(toNotify[k]) = YMD(now)
    /\ (op = "buildSlackBlocks_toNotify" /\ Urgent) =>
         /\ threeDays = <<>>
         /\ sevenDays = <<>>
         /\ HasSection(TodayTitle)
         /\ ~HasSection(ThreeDaysTitle)
         /\ ~HasSection(SevenDaysTitle)
    /\ (Filtered /\ ~Urgent) => toNotify = SelectSeq(tasks, InWindow)

\* the message of an urgent run that left out a task due tomorrow, which is
\* in its window, and kept a task due today
C24_Witness ==
    /\ op = "buildSlackBlocks_toNotify"
    /\ Hour(now) = 13
    /\ Len(tasks) = 2
    /\ InWindow(tasks[1])
    /\ DaysRemaining(tasks[1]) = 1
    /\ toNotify = <<tasks[2]>>
    /\ today = <<tasks[2]>>
    /\ HasSection(TodayTitle)

\* the task with this ID is among the tasks that filterTasks returned
Kept(id) == \E k \in 1..Len(toNotify) : toNotify[k].ID = id
\* the blocks of the message that show a task: the sections that are not
\* the title of a group
TaskBlocks ==
    {j \in 1..Len(built.blocks) :
       built.blocks[j].type = "section" /\ ~IsTitle(built.blocks[j])}

(* C27: for a task whose notify days are 1, 3 or 7, when filterTasks        *)
(* retains the task, groupTasksByUrgency with the same now puts it in       *)
(* exactly one of the three groups, and the message shows as many tasks as  *)
(* the filter retained.                                                     *)
C27_RetainedIsGrouped ==
    op = "buildSlackBlocks_toNotify" =>
      \A i \in 1..Len(tasks) :
        (tasks[i].NotifyDays \in {1, 3, 7} /\ Kept(i)) =>
          /\ Placed(i) = 1
          /\ Cardinality(TaskBlocks) = Len(toNotify)

\* a task with a window of 7 days, due on the last day of it, is in the
\* 7-day group
C27_Witness ==
    /\ op = "buildSlackBlocks_toNotify"
    /\ \E i \in 1..Len(tasks) :
         /\ tasks[i].NotifyDays = 7
         /\ EffectiveDueDate(tasks[i]) # nil
         /\ DaysRemaining(tasks[i]) = 7
         /\ Kept(i)
         /\ Occurs(sevenDays, i) = 1
         /\ HasSection(SevenDaysTitle)
         /\ Cardinality(TaskBlocks) = Len(toNotify)

(* C28: every task that filterTasks retains and groupTasksByUrgency then    *)
(* puts in the today group has its effective due date on now's calendar     *)
(* day: after the filter no overdue task is in the today group.             *)
C28_TodayGroupAfterFilter ==
    op = "buildSlackBlocks_toNotify" =>
      \A k \in 1..Len(today) : DueDay(today[k]) = YMD(now)

\* a list with a task due yesterday and a task due today, of which the
\* filter dropped the first and the today group holds the second
C28_Witness ==
    /\ op = "buildSlackBlocks_toNotify"
    /\ Len(tasks) = 2
    /\ EffectiveDueDate(tasks[1]) # nil
    /\ DaysRemaining(tasks[1]) = -1
    /\ ~Kept(1)
    /\ today = <<tasks[2]>>
    /\ DaysRemaining(tasks[2]) = 0

-----------------------------------------------------------------------------
(* The fields that are only shown.                                         *)

\* a task without its type, schedule status, workload and memo
Core(task) ==
    [task EXCEPT !.Type = <<>>, !.ScheduleStatus = "", !.Workload = 0, !.Memo = <<>>]
\* the two lists are equal except for those fields
EqualButShown ==
    /\ Len(tasks) = Len(twin)
    /\ \A i \in 1..Len(tasks) : Core(tasks[i]) = Core(twin[i])

(* C25: two task lists that are equal except for the type, schedule status, *)
(* workload and memo of their tasks get the same tasks from the filter, the *)
(* same group for every task from groupTasksByUrgency, and the same order   *)
(* from sortTasks.                                                          *)
C25_ShownFieldsDoNotInterfere ==
    EqualButShown =>
      /\ op = "filterTasks_pair" => IDs(toNotify) = IDs(twinOut.toNotify)
      /\ op \in {"groupTasksByUrgency_pair", "groupTasksByUrgency_main_pair"} =>
           /\ IDs(today) = IDs(twinOut.groups.today)
           /\ IDs(threeDays) = IDs(twinOut.groups.threeDays)
           /\ IDs(sevenDays) = IDs(twinOut.groups.sevenDays)
      /\ op \in {"sortTasks_pair", "sortTasks_main_pair"} =>
           IDs(sorted) = IDs(twinOut.sorted)

\* two lists that differ in the shown fields of both tasks, sorted into the
\* same order, which is not the input order
C25_Witness ==
    /\ op = "sortTasks_pair"
    /\ EqualButShown
    /\ Len(tasks) = 2
    /\ tasks[1] # twin[1]
    /\ tasks[2] # twin[2]
    /\ IDs(sorted) = <<2, 1>>
    /\ IDs(twinOut.sorted) = <<2, 1>>

-----------------------------------------------------------------------------
(* The workflow.                                                           *)

\* the job has ended
JobDone == step > Len(Steps)
\* none of the steps that prepare the notifier failed: the job ended well,
\* or it failed in the notifier
Prepared == job = "success" \/ executions # <<>>

(* C26: a job that one of the three schedules triggered, and whose steps of *)
(* preparation all ended well, has run the notifier exactly once when it    *)
(* ends; no job runs the notifier more than once.                           *)
C26_EveryScheduleRunsNotifier ==
    /\ Len(executions) <= 1
    /\ (JobDone /\ event.name = "schedule" /\ Prepared) => Len(executions) = 1

-----------------------------------------------------------------------------
(* The groups of the most recent design.                                   *)

\* the answer respects the query: no record starts after the query window
AnswerInWindow ==
    \A i \in 1..Len(records) :
        records[i].Due[1] # nil => ~After(Deref(records[i].Due[1]), targetDate)

(* C29: in a run of rootCmd.Run, whose lookahead is at most 3 days and      *)
(* whose fetch drops the tasks that end after the query window, every task  *)
(* that fetchNotionTasks returns is in the today group or in the 3-day      *)
(* group of groupTasksByUrgency: the 7-day group is empty, the message has  *)
(* no 7-day section and it shows every fetched task.                        *)
C29_NoSevenDayGroup ==
    (prog = "rootCmd.Run" /\ FetchOK /\ AnswerInWindow) =>
      LET g == groupTasksByUrgency(fetched.tasks, now)
      IN /\ g.sevenDays = <<>>
         /\ Len(g.today) + Len(g.threeDays) = Len(fetched.tasks)
         /\ ~HasSection(SevenDaysTitle)
         /\ posts # <<>> => Cardinality(TaskBlocks) = Len(fetched.tasks)

\* a run with --daysLater 5 that dropped a task ending in five days, and
\* posted a task due today and a task due in two days, the second in the
\* 3-day section
C29_Witness ==
    /\ prog = "rootCmd.Run"
    /\ flag = <<5>>
    /\ AnswerInWindow
    /\ Len(records) = 3
    /\ \E i \in 1..3 : records[i].Due = <<Ptr(DateOnly(Today)), Ptr(DateOnly(Today + 5))>>
    /\ Len(fetched.tasks) = 2
    /\ Len(groupTasksByUrgency(fetched.tasks, now).threeDays) = 1
    /\ Len(posts) = 1
    /\ HasSection(TodayTitle)
    /\ HasSection(ThreeDaysTitle)

-----------------------------------------------------------------------------
(* The errors of buildSlackBlocks.                                         *)

\* the error of formatDueDate for a task without any date
BothAbsentError == "startTime and endTime are both nil"
\* a task with an end and no start
EndOnly(task) == task.DueStart = nil /\ task.DueEnd # nil
\* the tasks of the three groups
GroupedTasks == Buckets[1] \o Buckets[2] \o Buckets[3]

(* C30: buildSlackBlocks returns no error for any list: a task without any  *)
(* due date is in no group, so formatDueDate's error for such a task is not *)
(* reached and the task is left out of the message, which shows the tasks   *)
(* of the groups.  (A call that does not return, because a grouped task has *)
(* an end and no start, returns no error either.)                           *)
C30_NoErrorFromBuild ==
    op = "buildSlackBlocks" =>
      /\ built.err # BothAbsentError
      /\ built.err \in {"", Panic.err}
      /\ built.err = Panic.err <=>
           \E k \in 1..Len(GroupedTasks) : EndOnly(GroupedTasks[k])
      /\ \A k \in 1..Len(GroupedTasks) : ~Undated(GroupedTasks[k])
      /\ built.err = "" => Cardinality(TaskBlocks) = Len(GroupedTasks)

\* a list with a task without any date and a task due today: the message
\* shows the second alone, and no error is returned
C30_Witness ==
    /\ op = "buildSlackBlocks"
    /\ Len(tasks) = 2
    /\ Undated(tasks[1])
    /\ ~Undated(tasks[2])
    /\ built.err = ""
    /\ Cardinality(TaskBlocks) = 1
    /\ HasSection(TodayTitle)

====
